---- MODULE Spec2Model ----
(***************************************************************************)
(* TextProof backend: the correction engine (CorrectionService.correct_text)*)
(* and the adapter retry wrapper (BaseModelAdapter.correct_text_with_retry).*)
(*                                                                         *)
(* Texts are abstracted to what the engine's control flow reads: the length *)
(* of the text, the list of units the splitter yields for it, and whether a *)
(* unit is blank.  Unit k of the text is the string Unit(k); the adapter's  *)
(* answer for it is Fixed(k) or the empty string.                           *)
(***************************************************************************)
EXTENDS Integers, Sequences, FiniteSets, TLC

\* ---------------------------------------------------------------- bounds
MaxUnits == 6          \* most chunks / sentences a text splits into
MaxRetriesBound == 3   \* largest max_retries tried
MaxK == 4              \* most failures before the adapter succeeds
MaxDelay == 2          \* largest retry_delay tried
MaxTaskUnits == 2      \* most units of a background task's text
TaskRetries == 2       \* max_retries of the background tasks' adapter
MaxLines == 5          \* most lines of an uploaded text
MaxStoreLines == 4     \* the same, when clients work on the store meanwhile
MaxIds == 2            \* most uuid4 values handed out
MaxCalls == 4          \* most TaskManager calls made on one task
MaxRows == 3           \* most rows of table results while a client pages
MaxStamp == 2          \* timestamps of the rows: 1..MaxStamp
MaxLegacy == 2         \* most results of a legacy results.json
MaxStarts == 2         \* starts of the store against one directory
MaxEpoch == 2          \* accepted config updates in one run
MaxTextLen == 5        \* characters of a text handed to a splitter
MaxSize == 3           \* the largest chunk size, resp. sentence limit
MaxDiffLen == 4        \* characters of a text handed to the diff predicate
MaxPosts == 2          \* POST /api/prompt requests, and the texts they post
MaxRunUnits == 3       \* most units of a task run beside another one

\* ------------------------------------------------------ program constants
max_consecutive_failures == 3
DefaultFastProviderMaxChars == 10000
MessageLimit == 5
MaxPageSize == 200
ExactSlack == 50
MinMatch == 10
MaxSearch == 200
DefaultChunkSize == 2000
DefaultChunkOverlap == 200
DefaultModelName == "gpt-4-turbo-preview"
ServiceKeys == {"default:default", "openai:gpt-4"}

Providers == {"openai", "deepseek", "ollama"}
fast_providers == {"openai", "deepseek"}

\* Error kinds an adapter call ends with (models/exceptions.py and a generic
\* Exception); "ok" is a returned string.
ErrorKinds == {"ConnectionError", "ServiceUnavailableError", "Exception"}

VARIABLES
  \* --- engine invocation (CorrectionService.correct_text)
  provider,              \* self.provider
  text,                  \* [length, units, blank]: the argument text
  max_direct_length,     \* fast_provider_max_chars read at line 353
  use_pycorrector,       \* config.settings.ollama_use_pycorrector
  has_callback,          \* progress_callback is not None
  pc,                    \* position of the coroutine
  i,                     \* loop index (0-based, as enumerate yields it)
  chunks,                \* chunks / sentences
  corrected_chunks,      \* corrected_chunks / corrected_sentences
  failed_chunks,         \* failed_chunks / failed_sentences
  consecutive_failures,
  result,                \* the returned dict (NoResult while none)
  error,                 \* the raised RuntimeError (NoError while none)
  call_log,              \* the adapter's calls, in order
  progress_log,          \* progress_callback's calls, in order
  \* --- retry wrapper (BaseModelAdapter.correct_text_with_retry)
  r_pc, max_retries, retry_delay, attempt, last_error, r_out,
  fail_kinds,            \* the adapter: fails Len(fail_kinds) times, then succeeds
  correct_calls,         \* calls of self.correct_text so far
  sleeps                 \* asyncio.sleep delays so far

engine_vars == <<provider, text, max_direct_length, use_pycorrector, has_callback,
                 pc, i, chunks, corrected_chunks, failed_chunks,
                 consecutive_failures, result, error, call_log, progress_log>>
retry_vars == <<r_pc, max_retries, retry_delay, attempt, last_error, r_out,
                fail_kinds, correct_calls, sleeps>>

VARIABLES
  \* --- background tasks sharing the event loop (process_task_async)
  t_total,               \* per task: the number of units of its text
  t_pc,                  \* per task: "ready" | "calling" | "sleeping" | "done"
  t_unit,                \* per task: the unit of its current / last call
  t_attempt,             \* per task: attempt of correct_text_with_retry
  in_flight,             \* <<task, unit>> of the calls begun and not over
  call_events            \* begin / end of every call, in order

sched_vars == <<t_total, t_pc, t_unit, t_attempt, in_flight, call_events>>

VARIABLES
  \* --- one upload: correct_file, its worker, TaskManager and SqliteStore
  lines,                 \* the uploaded text, line by line
  fk_default,            \* the SQLite build enforces foreign keys by default
  next_id,               \* uuid4 values handed out so far
  tasks,                 \* TaskManager.tasks: task id -> task dict
  store_results,         \* table results: result_id -> row
  store_chapters,        \* table chapters: rows in insertion order
  w_pc,                  \* position of process_task_async
  w_id,                  \* its task_id
  w_chapters,            \* chapters (split_by_chapters)
  w_k,                   \* chapter loop: the chapter being corrected
  corrected_chapters,
  w_chunks,              \* processed_chunks = total_chunks
  w_result,              \* result of the engine (no chapters)
  w_error,               \* the exception on its way to `except Exception`
  status_log,            \* the values the task's status has taken, in order
  engine_log,            \* what the engine returned / raised, in order
  deleted,               \* result ids delete_result has removed
  writes                 \* result id -> how often complete_task and
                         \* save_manual_result have written a row under it

worker_vars == <<lines, fk_default, next_id, tasks, store_results, store_chapters,
                 w_pc, w_id, w_chapters, w_k, corrected_chapters, w_chunks,
                 w_result, w_error, status_log, engine_log, deleted, writes>>

VARIABLES
  \* --- TaskManager's snapshots of its tasks (SqliteStore.upsert_task)
  store_tasks,           \* table tasks: task id -> the row last written
  tm_op,                 \* the TaskManager call made last, and how it ended
  tm_calls               \* TaskManager calls made so far

snap_vars == <<store_tasks, tm_op, tm_calls>>

VARIABLES
  \* --- a client paging through SqliteStore.list_results
  res_table,             \* table results as a scan reads it: rows in rowid order
  pg_limit,              \* the client's page size
  pg_offset,             \* the offset of its next request
  pg_out,                \* the items of the pages it has got, concatenated
  pg_pc                  \* "paging" until a page comes back empty, then "done"

page_vars == <<res_table, pg_limit, pg_offset, pg_out, pg_pc>>

VARIABLES
  \* --- the cache directory across starts of SqliteStore (legacy migration)
  legacy_json,           \* the file results.json: its content, or absent
  legacy_bak,            \* the file results.json.bak, likewise
  start_log              \* one record per SqliteStore(cache_dir) call so far

legacy_vars == <<legacy_json, legacy_bak, start_log>>

VARIABLES
  \* --- the process-wide settings and the cached services (main.py)
  chunk_size,            \* config.settings.chunk_size
  chunk_overlap,         \* config.settings.chunk_overlap
  default_model_name,    \* config.settings.default_model_name
  services,              \* _services: key -> the CorrectionService cached
  cfg_epoch,             \* update_runtime_config calls made so far
  http_status,           \* the status of the last POST /api/config, 0 before
  env_file,              \* what save_to_env_file wrote to .env last
  got                    \* what the last get_service call returned

config_vars == <<chunk_size, chunk_overlap, default_model_name, services,
                 cfg_epoch, http_status, env_file, got>>

VARIABLES
  \* --- one text through the per-sentence mode (_split_by_sentences)
  st_text,               \* the argument text, character by character
  st_limit,              \* max_length, the per-sentence limit
  st_sentences,          \* the sentences, each with its line ending
  st_out,                \* result["corrected"]
  st_pc                  \* "ready" before correct_text runs, then "done"

sentence_vars == <<st_text, st_limit, st_sentences, st_out, st_pc>>

VARIABLES
  \* --- one text through TextSplitter.split
  sp_text,               \* the argument text, character by character
  sp_size,               \* self.chunk_size
  sp_overlap,            \* self.chunk_overlap
  sp_chunks,             \* the list split returned
  sp_merged,             \* what merge made of that list
  sp_pc                  \* "ready", "done" after split, "merged" after merge

split_vars == <<sp_text, sp_size, sp_overlap, sp_chunks, sp_merged, sp_pc>>

VARIABLES
  \* --- one call of has_meaningful_changes (diff_utils.py)
  df_original,           \* the argument original
  df_corrected,          \* the argument corrected
  df_result,             \* what the call returned
  df_pc                  \* "ready" before the call, then "done"

diff_vars == <<df_original, df_corrected, df_result, df_pc>>

VARIABLES
  \* --- the prompt manager and the prompts of the cached services
  pm_prompt,             \* prompt_manager.prompt
  pm_ollama_prompt,      \* prompt_manager.ollama_prompt
  pm_saved,              \* prompts/custom_prompt.txt
  p_services,            \* _services: provider -> the service's prompt
  p_posts,               \* POST /api/prompt requests served
  p_call                 \* the adapter call started last

prompt_vars == <<pm_prompt, pm_ollama_prompt, pm_saved, p_services, p_posts,
                 p_call>>

VARIABLES
  \* --- two tasks running through one cached CorrectionService
  run_total,             \* task -> total_chunks of its text
  run_outcomes,          \* task -> how its adapter calls ended, in order
  run_locals,            \* frame -> the locals of a correct_text call
  run_tasks,             \* TaskManager.tasks: task -> progress and status
  run_pc                 \* task -> "loop" or "done"

run_vars == <<run_total, run_outcomes, run_locals, run_tasks, run_pc>>

tail_vars == <<prompt_vars, run_vars>>

\* The state of the components modelled last.
more_vars == <<config_vars, sentence_vars, split_vars, diff_vars, tail_vars>>

\* The state of the components modelled further down.
later_vars == <<snap_vars, page_vars, legacy_vars, more_vars>>

\* What an engine step, resp. a retry step, leaves alone.
outside_engine == <<retry_vars, sched_vars, worker_vars, later_vars>>
outside_retry == <<engine_vars, sched_vars, worker_vars, later_vars>>
outside_sched == <<engine_vars, retry_vars, worker_vars, later_vars>>
outside_worker == <<engine_vars, retry_vars, sched_vars, later_vars>>
vars == <<engine_vars, retry_vars, sched_vars, worker_vars, later_vars>>

\* ---------------------------------------------------------------- texts
Blank == <<>>
Unit(k) == <<"unit", k>>
Fixed(k) == <<"fixed", k>>
Whole == <<"text">>
FixedWhole == <<"fixed", 0>>
Precorrected(s) == <<"pycorrector", s>>

\* sentence.strip() is empty
IsBlank(s) == s = Blank

\* The unit lists a text of n units with blank units at the indices in b.
UnitsOf(n, b) == [k \in 1..n |-> IF k \in b THEN Blank ELSE Unit(k)]

Min(a, b) == IF a < b THEN a ELSE b
Take(s, n) == SubSeq(s, 1, Min(n, Len(s)))

NoResult == [none |-> TRUE]
NoError == [none |-> TRUE]
\* failure_details is None when failed_chunks is empty, else the list itself;
\* the list is never empty then, so None is written <<>>.
None == <<>>

\* --------------------------------------------------- engine: pure parts
Failure(index, err) == [chunk_index |-> index, error |-> err]

\* for j in range(i + 1, total): ...append(chunks[j]) -- 0-based i, so the
\* units after the current one are i+2 .. total in 1-based numbering.
RestOriginals(cs, at) == SubSeq(cs, at + 2, Len(cs))
\* The fill loop numbering the skipped units from the current one.
RestFailures_OffByOne(cs, at, note) ==
  [k \in 1..(Len(cs) - at - 1) |-> Failure(at + k, note)]

RestFailures(cs, at, note) == [k \in 1..(Len(cs) - at - 1) |-> Failure(at + 1 + k, note)]

\* The dict returned when the text splits into no unit (lines 243-248, 398-403).
EmptyReturn == [original |-> Whole, corrected |-> Whole,
                chunks_processed |-> 0, total_chunks |-> 0]

\* Lines 375-383.
DirectReturn == [original |-> Whole, corrected |-> FixedWhole,
                 chunks_processed |-> 1, total_chunks |-> 1,
                 failed_chunks |-> 0, has_failures |-> FALSE,
                 failure_details |-> None]

\* The every-chunk-failed test taken as "some chunk failed".
ChunkedAllFailed_Any(fc, total) == Len(fc) > 0 /\ total > 0

\* Lines 513-529: merge, then raise when every chunk failed, else return.
ChunkedAllFailed(fc, total) == Len(fc) = total /\ total > 0
ChunkedError(fc) == [type |-> "RuntimeError", head |-> "all chunks failed",
                     listed |-> fc, more |-> 0]
ChunkedReturn(cc, fc, total) ==
  [original |-> Whole, corrected |-> <<"merge", cc>>,
   chunks_processed |-> Len(cc), total_chunks |-> total,
   failed_chunks |-> Len(fc), has_failures |-> Len(fc) > 0,
   failure_details |-> IF fc # <<>> THEN fc ELSE None]

\* Lines 323-346: join with the line endings, raise when every sentence
\* failed (the message lists failed_sentences[:5]), else return.
SentenceAllFailed(fs, total) == Len(fs) = total /\ total > 0
SentenceError(fs) == [type |-> "RuntimeError", head |-> "all sentences failed",
                      listed |-> Take(fs, MessageLimit),
                      more |-> IF Len(fs) > MessageLimit THEN Len(fs) ELSE 0]
SentenceReturn(cs, fs, total) ==
  [original |-> Whole, corrected |-> <<"join", cs>>,
   chunks_processed |-> Cardinality({k \in 1..Len(cs) : ~IsBlank(cs[k])}),
   total_chunks |-> total,
   failed_chunks |-> Len(fs), has_failures |-> Len(fs) > 0,
   failure_details |-> IF fs # <<>> THEN fs ELSE None]

\* ------------------------------------------------ engine: the coroutine
\* pc: "start" -> "direct" | "chunk_loop" | "sentence_loop" -> "returned" | "raised".
\* One action is the code between two suspension points (adapter calls).

Call(unit, input, kind) == [unit |-> unit, input |-> input, kind |-> kind]

\* progress_callback(current, total) when a callback was passed.
Progress(current, total) ==
  progress_log' = IF has_callback THEN Append(progress_log, <<current, total>>)
                  ELSE progress_log

\* Lines 393-416: split, return at once when there is no chunk, else enter
\* the chunk loop with fresh locals.
EnterChunked ==
  /\ chunks' = text.units
  /\ i' = 0
  /\ corrected_chunks' = <<>>
  /\ failed_chunks' = <<>>
  /\ consecutive_failures' = 0
  /\ error' = NoError
  /\ IF Len(text.units) = 0
     THEN pc' = "returned" /\ result' = EmptyReturn
     ELSE pc' = "chunk_loop" /\ result' = NoResult

\* Lines 236-257.
EnterSentences ==
  /\ chunks' = text.units
  /\ i' = 0
  /\ corrected_chunks' = <<>>
  /\ failed_chunks' = <<>>
  /\ consecutive_failures' = 0
  /\ error' = NoError
  /\ IF Len(text.units) = 0
     THEN pc' = "returned" /\ result' = EmptyReturn
     ELSE pc' = "sentence_loop" /\ result' = NoResult

\* Strategy selection without the length test: every text of a fast
\* provider goes out whole.
Start_NoLengthTest ==
  /\ pc = "start"
  /\ IF provider = "ollama"
     THEN EnterSentences
     ELSE IF provider \in fast_providers
     THEN /\ pc' = "direct"
          /\ UNCHANGED <<i, chunks, corrected_chunks, failed_chunks,
                         consecutive_failures, result, error>>
     ELSE EnterChunked
  /\ UNCHANGED <<provider, text, max_direct_length, use_pycorrector, has_callback,
                 call_log, progress_log>>
  /\ UNCHANGED outside_engine

\* Lines 233-240, 351-363, 393-416: strategy selection up to the first await.
Start ==
  /\ pc = "start"
  /\ IF provider = "ollama"
     THEN EnterSentences
     ELSE IF provider \in fast_providers /\ text.length <= max_direct_length
     THEN /\ pc' = "direct"
          /\ UNCHANGED <<i, chunks, corrected_chunks, failed_chunks,
                         consecutive_failures, result, error>>
     ELSE EnterChunked
  /\ UNCHANGED <<provider, text, max_direct_length, use_pycorrector, has_callback,
                 call_log, progress_log>>
  /\ UNCHANGED outside_engine

\* Lines 363-383: the whole-text call returns.
DirectOk ==
  /\ pc = "direct"
  /\ call_log' = Append(call_log, Call(0, Whole, "ok"))
  /\ Progress(1, 1)
  /\ pc' = "returned"
  /\ result' = DirectReturn
  /\ UNCHANGED <<provider, text, max_direct_length, use_pycorrector, has_callback,
                 i, chunks, corrected_chunks, failed_chunks, consecutive_failures,
                 error>>
  /\ UNCHANGED outside_engine

\* The failed whole-text call surfacing its error.
DirectFail_Surfaces ==
  /\ pc = "direct"
  /\ \E kind \in ErrorKinds :
       /\ call_log' = Append(call_log, Call(0, Whole, kind))
       /\ error' = [type |-> kind, head |-> "direct call failed",
                    listed |-> <<>>, more |-> 0]
  /\ pc' = "raised"
  /\ UNCHANGED <<provider, text, max_direct_length, use_pycorrector, has_callback,
                 i, chunks, corrected_chunks, failed_chunks, consecutive_failures,
                 result, progress_log>>
  /\ UNCHANGED outside_engine

\* Lines 384-416: the whole-text call raises (any Exception): log, fall
\* through to the chunked flow.
DirectFail ==
  /\ pc = "direct"
  /\ \E kind \in ErrorKinds : call_log' = Append(call_log, Call(0, Whole, kind))
  /\ EnterChunked
  /\ UNCHANGED <<provider, text, max_direct_length, use_pycorrector, has_callback,
                 progress_log>>
  /\ UNCHANGED outside_engine

\* After an iteration of the chunk loop that leaves cc and fc: the loop goes
\* on, or (break, or last chunk) lines 513-529 run.
ChunkAfter(cc, fc, stop) ==
  /\ corrected_chunks' = cc
  /\ failed_chunks' = fc
  /\ IF stop \/ i + 1 = Len(chunks)
     THEN IF ChunkedAllFailed(fc, Len(chunks))
          THEN pc' = "raised" /\ error' = ChunkedError(fc) /\ result' = NoResult
          ELSE pc' = "returned" /\ result' = ChunkedReturn(cc, fc, Len(chunks))
                                /\ error' = NoError
     ELSE pc' = "chunk_loop" /\ UNCHANGED <<result, error>>
  /\ i' = i + 1

ChunkFrame ==
  /\ UNCHANGED <<provider, text, max_direct_length, use_pycorrector, has_callback,
                 chunks>>
  /\ UNCHANGED outside_engine

\* The success branch without the reset of the failure counter.
ChunkOk_NoReset ==
  /\ pc = "chunk_loop"
  /\ call_log' = Append(call_log, Call(i + 1, chunks[i + 1], "ok"))
  /\ UNCHANGED consecutive_failures
  /\ Progress(i + 1, Len(chunks))
  /\ ChunkAfter(Append(corrected_chunks, Fixed(i + 1)), failed_chunks, FALSE)
  /\ ChunkFrame

\* Lines 422-436.
ChunkOk ==
  /\ pc = "chunk_loop"
  /\ call_log' = Append(call_log, Call(i + 1, chunks[i + 1], "ok"))
  /\ consecutive_failures' = 0
  /\ Progress(i + 1, Len(chunks))
  /\ ChunkAfter(Append(corrected_chunks, Fixed(i + 1)), failed_chunks, FALSE)
  /\ ChunkFrame

\* The connection-error handler without its fill loop and break.
ChunkConnectionError_NoStop ==
  /\ pc = "chunk_loop"
  /\ call_log' = Append(call_log, Call(i + 1, chunks[i + 1], "ConnectionError"))
  /\ ChunkAfter(Append(corrected_chunks, chunks[i + 1]),
                Append(failed_chunks, Failure(i + 1, "ConnectionError")),
                FALSE)
  /\ UNCHANGED <<consecutive_failures, progress_log>>
  /\ ChunkFrame

\* Lines 437-459.
ChunkConnectionError ==
  /\ pc = "chunk_loop"
  /\ call_log' = Append(call_log, Call(i + 1, chunks[i + 1], "ConnectionError"))
  /\ ChunkAfter(Append(corrected_chunks, chunks[i + 1]) \o RestOriginals(chunks, i),
                Append(failed_chunks, Failure(i + 1, "ConnectionError"))
                  \o RestFailures(chunks, i, "skipped: connection error"),
                TRUE)
  /\ UNCHANGED <<consecutive_failures, progress_log>>
  /\ ChunkFrame

\* The service-unavailable handler with the breaker never tripping.
ChunkServiceUnavailable_NoBreaker ==
  /\ pc = "chunk_loop"
  /\ call_log' = Append(call_log, Call(i + 1, chunks[i + 1], "ServiceUnavailableError"))
  /\ consecutive_failures' = consecutive_failures + 1
  /\ ChunkAfter(Append(corrected_chunks, chunks[i + 1]),
                Append(failed_chunks, Failure(i + 1, "ServiceUnavailableError")),
                FALSE)
  /\ UNCHANGED progress_log
  /\ ChunkFrame

\* Lines 460-484.
ChunkServiceUnavailable ==
  /\ pc = "chunk_loop"
  /\ call_log' = Append(call_log, Call(i + 1, chunks[i + 1], "ServiceUnavailableError"))
  /\ consecutive_failures' = consecutive_failures + 1
  /\ IF consecutive_failures + 1 >= max_consecutive_failures
     THEN ChunkAfter(Append(corrected_chunks, chunks[i + 1]) \o RestOriginals(chunks, i),
                     Append(failed_chunks, Failure(i + 1, "ServiceUnavailableError"))
                       \o RestFailures(chunks, i, "skipped: service unavailable"),
                     TRUE)
     ELSE ChunkAfter(Append(corrected_chunks, chunks[i + 1]),
                     Append(failed_chunks, Failure(i + 1, "ServiceUnavailableError")),
                     FALSE)
  /\ UNCHANGED progress_log
  /\ ChunkFrame

\* Lines 485-510.
ChunkException ==
  /\ pc = "chunk_loop"
  /\ call_log' = Append(call_log, Call(i + 1, chunks[i + 1], "Exception"))
  /\ consecutive_failures' = consecutive_failures + 1
  /\ IF consecutive_failures + 1 >= max_consecutive_failures
     THEN ChunkAfter(Append(corrected_chunks, chunks[i + 1]) \o RestOriginals(chunks, i),
                     Append(failed_chunks, Failure(i + 1, "Exception"))
                       \o RestFailures(chunks, i, "skipped: consecutive failures"),
                     TRUE)
     ELSE ChunkAfter(Append(corrected_chunks, chunks[i + 1]),
                     Append(failed_chunks, Failure(i + 1, "Exception")),
                     FALSE)
  /\ UNCHANGED progress_log
  /\ ChunkFrame

\* After an iteration of the sentence loop: the loop goes on, or (break, or
\* last sentence) lines 323-346 run.
SentenceAfter(cs, fs, stop) ==
  /\ corrected_chunks' = cs
  /\ failed_chunks' = fs
  /\ IF stop \/ i + 1 = Len(chunks)
     THEN IF SentenceAllFailed(fs, Len(chunks))
          THEN pc' = "raised" /\ error' = SentenceError(fs) /\ result' = NoResult
          ELSE pc' = "returned" /\ result' = SentenceReturn(cs, fs, Len(chunks))
                                /\ error' = NoError
     ELSE pc' = "sentence_loop" /\ UNCHANGED <<result, error>>
  /\ i' = i + 1

\* Lines 270-273: the text sent to the adapter.
input_for_ollama(sentence) ==
  IF use_pycorrector THEN Precorrected(sentence) ELSE sentence

\* Lines 258-263: a blank line is carried through, not sent.
SentenceBlank ==
  /\ pc = "sentence_loop"
  /\ IsBlank(chunks[i + 1])
  /\ Progress(i + 1, Len(chunks))
  /\ SentenceAfter(Append(corrected_chunks, chunks[i + 1]), failed_chunks, FALSE)
  /\ UNCHANGED <<consecutive_failures, call_log>>
  /\ ChunkFrame

\* Lines 269-284.
SentenceOk ==
  /\ pc = "sentence_loop"
  /\ ~IsBlank(chunks[i + 1])
  /\ call_log' = Append(call_log, Call(i + 1, input_for_ollama(chunks[i + 1]), "ok"))
  /\ consecutive_failures' = 0
  /\ Progress(i + 1, Len(chunks))
  /\ \E out \in {Fixed(i + 1), Blank} :
       SentenceAfter(Append(corrected_chunks, out), failed_chunks, FALSE)
  /\ ChunkFrame

\* Lines 286-301.
SentenceConnectionError ==
  /\ pc = "sentence_loop"
  /\ ~IsBlank(chunks[i + 1])
  /\ call_log' = Append(call_log,
                        Call(i + 1, input_for_ollama(chunks[i + 1]), "ConnectionError"))
  /\ SentenceAfter(Append(corrected_chunks, chunks[i + 1]) \o RestOriginals(chunks, i),
                   Append(failed_chunks, Failure(i + 1, "ConnectionError"))
                     \o RestFailures(chunks, i, "skipped: connection error"),
                   TRUE)
  /\ UNCHANGED <<consecutive_failures, progress_log>>
  /\ ChunkFrame

\* Lines 303-321: ServiceUnavailableError and every other Exception.
SentenceException ==
  /\ pc = "sentence_loop"
  /\ ~IsBlank(chunks[i + 1])
  /\ \E kind \in {"ServiceUnavailableError", "Exception"} :
       /\ call_log' = Append(call_log, Call(i + 1, input_for_ollama(chunks[i + 1]), kind))
       /\ consecutive_failures' = consecutive_failures + 1
       /\ IF consecutive_failures + 1 >= max_consecutive_failures
          THEN SentenceAfter(
                 Append(corrected_chunks, chunks[i + 1]) \o RestOriginals(chunks, i),
                 Append(failed_chunks, Failure(i + 1, kind))
                   \o RestFailures(chunks, i, "skipped: consecutive failures"),
                 TRUE)
          ELSE SentenceAfter(Append(corrected_chunks, chunks[i + 1]),
                             Append(failed_chunks, Failure(i + 1, kind)),
                             FALSE)
  /\ UNCHANGED progress_log
  /\ ChunkFrame

\* --------------------------------------------------------- engine: Spec
\* A text: its length and the units the service's splitter yields for it.
\* The empty text has no unit; a non-empty text has at least one sentence
\* (text.split('\n') is never empty) and any number of chunks, none when it
\* holds paragraph separators only.  A blank unit is a blank line; the chunk
\* loop never reads a chunk's content, so chunks are taken non-blank.
\* Lengths at the edges of the two tests the engine makes on len(text).
TextLengths == {0, 1, DefaultFastProviderMaxChars, DefaultFastProviderMaxChars + 1}

TextOk(p, t) ==
  /\ t.length = 0 => Len(t.units) = 0
  /\ (p = "ollama" /\ t.length > 0) => Len(t.units) > 0
  /\ p # "ollama" => \A k \in 1..Len(t.units) : ~IsBlank(t.units[k])

\* No background task is running.
Tasks == {"a", "b"}
SchedIdle ==
  /\ t_total = [t \in Tasks |-> 0]
  /\ t_pc = [t \in Tasks |-> "done"]
  /\ t_unit = [t \in Tasks |-> 0]
  /\ t_attempt = [t \in Tasks |-> 0]
  /\ in_flight = {}
  /\ call_events = <<>>

\* No upload yet: empty TaskManager, empty tables.
NoRows == <<>>
WorkerIdle ==
  /\ lines = <<>>
  /\ fk_default = FALSE
  /\ next_id = 1
  /\ tasks = NoRows
  /\ store_results = NoRows
  /\ store_chapters = <<>>
  /\ w_pc = "none"
  /\ w_id = <<>>
  /\ w_chapters = <<>>
  /\ w_k = 0
  /\ corrected_chapters = <<>>
  /\ w_chunks = 0
  /\ w_result = [none |-> TRUE]
  /\ w_error = <<>>
  /\ status_log = <<>>
  /\ engine_log = <<>>
  /\ deleted = {}
  /\ writes = NoRows

\* No TaskManager call yet, nothing in table tasks.
NoCall == [op |-> "none"]
SnapIdle ==
  /\ store_tasks = NoRows
  /\ tm_op = NoCall
  /\ tm_calls = 0

\* Nobody pages through the results.
PageIdle ==
  /\ res_table = <<>>
  /\ pg_limit = 1
  /\ pg_offset = 0
  /\ pg_out = <<>>
  /\ pg_pc = "done"

\* A cache directory without legacy files, the store constructed once.
NoFile == [shape |-> "absent", entries |-> <<>>]
LegacyIdle ==
  /\ legacy_json = NoFile
  /\ legacy_bak = NoFile
  /\ start_log = <<>>

\* No service constructed yet.
NoService == [born |-> 0 - 1, chunk_size |-> 0, chunk_overlap |-> 0,
              model_name |-> "none"]

\* Settings() as config.py declares it, no request made yet.
ConfigIdle ==
  /\ chunk_size = DefaultChunkSize
  /\ chunk_overlap = DefaultChunkOverlap
  /\ default_model_name = DefaultModelName
  /\ services = [k \in ServiceKeys |-> NoService]
  /\ cfg_epoch = 0
  /\ http_status = 0
  /\ env_file = NoService
  /\ got = [key |-> "none", raised |-> FALSE, service |-> NoService]

\* No text handed to the per-sentence mode, resp. to the splitter.
SentenceIdle ==
  /\ st_text = <<>>
  /\ st_limit = 1
  /\ st_sentences = <<>>
  /\ st_out = <<>>
  /\ st_pc = "done"

SplitIdle ==
  /\ sp_text = <<>>
  /\ sp_size = 1
  /\ sp_overlap = 0
  /\ sp_chunks = <<>>
  /\ sp_merged = <<>>
  /\ sp_pc = "merged"

DiffIdle ==
  /\ df_original = <<>>
  /\ df_corrected = <<>>
  /\ df_result = FALSE
  /\ df_pc = "done"

\* A prompt text: the one loaded at startup, the one of the Ollama prompt
\* file, or the n-th text a client posts.
Prompt(kind, n) == <<kind, n>>
NoAdapterCall == [made |-> FALSE]

PromptIdle ==
  /\ pm_prompt = Prompt("startup", 0)
  /\ pm_ollama_prompt = Prompt("startup", 0)
  /\ pm_saved = Prompt("startup", 0)
  /\ p_services = <<>>
  /\ p_posts = 0
  /\ p_call = NoAdapterCall

RunIdle ==
  /\ run_total = <<>>
  /\ run_outcomes = <<>>
  /\ run_locals = <<>>
  /\ run_tasks = <<>>
  /\ run_pc = <<>>

TailIdle == PromptIdle /\ RunIdle

MoreIdle == ConfigIdle /\ SentenceIdle /\ SplitIdle /\ DiffIdle /\ TailIdle

LaterIdle ==
  /\ SnapIdle
  /\ PageIdle
  /\ LegacyIdle
  /\ MoreIdle

RetryIdle ==
  /\ r_pc = "idle" /\ max_retries = 0 /\ retry_delay = 0 /\ attempt = 0
  /\ last_error = [attempt |-> -1, kind |-> "None"] /\ r_out = "None" /\ fail_kinds = <<>>
  /\ correct_calls = 0 /\ sleeps = <<>>

Init ==
  /\ LaterIdle
  /\ provider \in Providers
  /\ max_direct_length = DefaultFastProviderMaxChars
  /\ \E n \in 0..MaxUnits, l \in TextLengths :
       \E b \in SUBSET (1..n) :
         /\ text = [length |-> l, units |-> UnitsOf(n, b)]
         /\ TextOk(provider, text)
  /\ use_pycorrector \in (IF provider = "ollama" THEN BOOLEAN ELSE {TRUE})
  /\ has_callback \in BOOLEAN
  /\ pc = "start"
  /\ i = 0
  /\ chunks = <<>>
  /\ corrected_chunks = <<>>
  /\ failed_chunks = <<>>
  /\ consecutive_failures = 0
  /\ result = NoResult
  /\ error = NoError
  /\ call_log = <<>>
  /\ progress_log = <<>>
  /\ RetryIdle
  /\ SchedIdle
  /\ WorkerIdle

Next ==
  \/ Start
  \/ DirectOk
  \/ DirectFail
  \/ ChunkOk
  \/ ChunkConnectionError
  \/ ChunkServiceUnavailable
  \/ ChunkException
  \/ SentenceBlank
  \/ SentenceOk
  \/ SentenceConnectionError
  \/ SentenceException

Spec == Init /\ [][Next]_vars

\* ------------------------------------------- adapter: the retry wrapper
\* BaseModelAdapter.correct_text_with_retry over an adapter whose
\* correct_text raises fail_kinds[1], fail_kinds[2], ... and then returns.
\* r_pc: "idle" -> "attempt" -> "returned" | "raised".

Raised(a, kind) == [attempt |-> a, kind |-> kind]
NoAttempt == [attempt |-> -1, kind |-> "None"]

\* Lines 57-62, 79: last_error = None, the loop is entered; with an empty
\* range the function falls to `raise last_error`, and raising None is a
\* TypeError.
RetryStart ==
  /\ r_pc = "idle"
  /\ attempt' = 0
  /\ last_error' = NoAttempt
  /\ IF max_retries > 0
     THEN r_pc' = "attempt" /\ r_out' = "None"
     ELSE r_pc' = "raised" /\ r_out' = "TypeError"
  /\ UNCHANGED <<max_retries, retry_delay, fail_kinds, correct_calls, sleeps>>
  /\ UNCHANGED outside_retry

\* Lines 63-67: the attempt's call returns.
RetryAttemptOk ==
  /\ r_pc = "attempt"
  /\ correct_calls >= Len(fail_kinds)
  /\ correct_calls' = correct_calls + 1
  /\ r_pc' = "returned"
  /\ r_out' = "ok"
  /\ UNCHANGED <<max_retries, retry_delay, attempt, last_error, fail_kinds, sleeps>>
  /\ UNCHANGED outside_retry

\* The failure handler sleeping after every failed attempt, the last too.
RetryAttemptFail_SleepsLast ==
  /\ r_pc = "attempt"
  /\ correct_calls < Len(fail_kinds)
  /\ correct_calls' = correct_calls + 1
  /\ last_error' = Raised(attempt, fail_kinds[correct_calls + 1])
  /\ sleeps' = Append(sleeps, retry_delay * (attempt + 1))
  /\ IF attempt < max_retries - 1
     THEN /\ attempt' = attempt + 1
          /\ r_pc' = "attempt"
          /\ r_out' = r_out
     ELSE /\ r_pc' = "raised"
          /\ r_out' = fail_kinds[correct_calls + 1]
          /\ UNCHANGED attempt
  /\ UNCHANGED <<max_retries, retry_delay, fail_kinds>>
  /\ UNCHANGED outside_retry

\* Lines 68-77: the attempt's call raises: sleep retry_delay * (attempt + 1)
\* and go round again, or re-raise on the last attempt.
RetryAttemptFail ==
  /\ r_pc = "attempt"
  /\ correct_calls < Len(fail_kinds)
  /\ correct_calls' = correct_calls + 1
  /\ last_error' = Raised(attempt, fail_kinds[correct_calls + 1])
  /\ IF attempt < max_retries - 1
     THEN /\ sleeps' = Append(sleeps, retry_delay * (attempt + 1))
          /\ attempt' = attempt + 1
          /\ r_pc' = "attempt"
          /\ r_out' = r_out
     ELSE /\ r_pc' = "raised"
          /\ r_out' = fail_kinds[correct_calls + 1]
          /\ UNCHANGED <<sleeps, attempt>>
  /\ UNCHANGED <<max_retries, retry_delay, fail_kinds>>
  /\ UNCHANGED outside_retry

EngineIdle ==
  /\ provider = "openai"
  /\ text = [length |-> 0, units |-> <<>>]
  /\ max_direct_length = DefaultFastProviderMaxChars
  /\ use_pycorrector = TRUE
  /\ has_callback = FALSE
  /\ pc = "idle"
  /\ i = 0
  /\ chunks = <<>>
  /\ corrected_chunks = <<>>
  /\ failed_chunks = <<>>
  /\ consecutive_failures = 0
  /\ result = NoResult
  /\ error = NoError
  /\ call_log = <<>>
  /\ progress_log = <<>>

InitRetry ==
  /\ LaterIdle
  /\ EngineIdle
  /\ SchedIdle
  /\ WorkerIdle
  /\ r_pc = "idle"
  /\ max_retries \in 0..MaxRetriesBound
  /\ retry_delay \in 0..MaxDelay
  /\ fail_kinds \in UNION {[1..n -> ErrorKinds] : n \in 0..MaxK}
  /\ attempt = 0
  /\ last_error = NoAttempt
  /\ r_out = "None"
  /\ correct_calls = 0
  /\ sleeps = <<>>

NextRetry ==
  \/ RetryStart
  \/ RetryAttemptOk
  \/ RetryAttemptFail

SpecRetry == InitRetry /\ [][NextRetry]_vars

\* ------------------------------------------------ ChapterSplitter
\* A text is the sequence of its lines, each of one kind:
\*   "title"    matches a chapter pattern and names a chapter
\*              (第X章 / Chapter N / 【...】), line 106-108;
\*   "heading"  matches a chapter pattern only (第X节, "1. ...", ...);
\*   "body"     any other non-blank line;
\*   "blank"    a line that strips to nothing.
\* Lines the loop drops before looking at them (rules, page numbers, file
\* head keywords: lines 70-83) are left out of the text.
LineKinds == {"title", "heading", "body", "blank"}

Chapter(index, title, content) ==
  [chapter_index |-> index, chapter_title |-> title, chapter_content |-> content]

\* '\n'.join(current_content).strip() is non-empty: content holds the
\* positions of the lines collected.
HasBody(ls, content) == \E j \in 1..Len(content) : ls[content[j]] = "body"

\* Lines 118-127 and 164-173: keep the open chapter when it has content.
Flush(ls, st) ==
  IF st.current # None /\ HasBody(ls, st.content)
  THEN Append(st.chapters, Chapter(st.current[1], st.current[2], st.content))
  ELSE st.chapters

\* Lines 140-142: the first line at or after i that is not blank.
RECURSIVE SkipBlank(_, _)
SkipBlank(ls, at) ==
  IF at <= Len(ls) /\ ls[at] = "blank" THEN SkipBlank(ls, at + 1) ELSE at

\* Lines 61-161: the loop from line at (1-based position) on.
RECURSIVE SplitLoop(_, _, _)
SplitLoop(ls, at, st) ==
  IF at > Len(ls) THEN st
  ELSE IF ls[at] \in {"title", "heading"}
  THEN IF st.skip_prefix /\ st.chapter_index = 0 /\ ls[at] # "title"
       THEN SplitLoop(ls, at + 1, st)
       ELSE SplitLoop(ls, SkipBlank(ls, at + 1),
                      [chapters |-> Flush(ls, st),
                       chapter_index |-> st.chapter_index + 1,
                       current |-> <<st.chapter_index + 1, <<"line", at>>>>,
                       content |-> <<>>,
                       skip_prefix |-> IF st.chapter_index = 0 THEN FALSE
                                       ELSE st.skip_prefix])
  ELSE IF st.skip_prefix
  THEN SplitLoop(ls, at + 1, st)
  ELSE IF st.current = None
  THEN SplitLoop(ls, at + 1,
                 [st EXCEPT !.chapter_index = @ + 1,
                            !.current = <<st.chapter_index + 1,
                                          <<"default", st.chapter_index + 1>>>>,
                            !.content = <<at>>])
  ELSE SplitLoop(ls, at + 1, [st EXCEPT !.content = Append(@, at)])

\* split_by_chapters(text).
split_by_chapters(ls) ==
  IF ls = <<>> THEN <<>>
  ELSE LET st == SplitLoop(ls, 1, [chapters |-> <<>>, chapter_index |-> 0,
                                   current |-> None, content |-> <<>>,
                                   skip_prefix |-> TRUE])
           chapters == Flush(ls, st)
       IN IF chapters = <<>>
          THEN <<Chapter(1, <<"whole">>, [j \in 1..Len(ls) |-> j])>>
          ELSE chapters

\* detect_chapters(text), as correct_file reads it (main.py 340-341).
detect_use_chapters(ls) ==
  LET n == Len(split_by_chapters(ls)) IN n > 1 /\ n > 1

\* ---------------------------------------- TaskManager and SqliteStore
\* A uuid4 that yields the same value at every call.
Id_Repeated(n) == <<"id", 1>>

\* uuid4 values: each call yields one never handed out before.
Id(n) == <<"id", n>>

\* A text of the upload: the positions of its lines.
Text(content) == <<"lines", content>>
WholeText(ls) == Text([j \in 1..Len(ls) |-> j])

\* dict.get(key, default).
Get(d, key, default) == IF key \in DOMAIN d THEN d[key] ELSE default

\* has_meaningful_changes(original, corrected): the corrected text differs
\* from the original by more than whitespace, i.e. holds adapter output
\* that is not an echo.
has_meaningful_changes(original, corrected) ==
  CASE corrected[1] = "fixed" -> TRUE
    [] corrected[1] = "merge" ->
         \E k \in 1..Len(corrected[2]) : corrected[2][k][1] = "fixed"
    [] OTHER -> FALSE

\* create_task: the new task dict.
NewTask(use) ==
  [status |-> "pending", use_chapters |-> use,
   progress |-> [current |-> 0, total |-> 0],
   chapter_progress |-> IF use THEN NoRows ELSE None,
   completed_at |-> FALSE, error |-> None]

NewChapterProgress(status) ==
  [status |-> status, progress |-> [current |-> 0, total |-> 0]]

\* update_chapter_status on the task dict t.
update_chapter_status(t, index, status) ==
  IF ~t.use_chapters THEN t
  ELSE LET cp == IF t.chapter_progress = None THEN NoRows ELSE t.chapter_progress
       IN [t EXCEPT !.chapter_progress =
             IF index \in DOMAIN cp
             THEN [cp EXCEPT ![index].status = status]
             ELSE (index :> NewChapterProgress(status)) @@ cp]

\* update_task_progress on the task dict t (index = 0: no chapter_index).
update_task_progress(t, current, total, index) ==
  LET t1 == [t EXCEPT !.progress = [current |-> current, total |-> total]]
      t2 == IF index # 0 /\ t1.use_chapters
            THEN LET cp0 == IF t1.chapter_progress = None THEN NoRows
                            ELSE t1.chapter_progress
                     cp == IF index \in DOMAIN cp0 THEN cp0
                           ELSE (index :> NewChapterProgress("processing")) @@ cp0
                 IN [t1 EXCEPT !.chapter_progress =
                       [cp EXCEPT ![index].progress =
                          [current |-> current, total |-> total]]]
            ELSE t1
  IN IF t2.status = "pending" THEN [t2 EXCEPT !.status = "processing"] ELSE t2

\* complete_task, resp. fail_task, on the task dict t.
CompletedTask(t) ==
  [t EXCEPT !.status = "completed", !.completed_at = TRUE,
            !.progress.current = t.progress.total]
FailedTask(t, err) ==
  [t EXCEPT !.status = "failed", !.completed_at = TRUE, !.error = err]

\* The count of writes after one more under result_id.
Written(counts, result_id) ==
  [r \in DOMAIN counts \cup {result_id} |->
     (IF r \in DOMAIN counts THEN counts[r] ELSE 0)
       + (IF r = result_id THEN 1 ELSE 0)]

\* upsert_result: insert, or overwrite the row of that result_id.
ResultRow(result_id, task_id, source, has_changes, use, original, corrected) ==
  [result_id |-> result_id, task_id |-> task_id, source |-> source,
   has_changes |-> has_changes, use_chapters |-> use,
   original_text |-> original, corrected_text |-> corrected]
upsert_result(rows, row) ==
  [r \in DOMAIN rows \cup {row.result_id} |->
     IF r = row.result_id THEN row ELSE rows[r]]

\* replace_chapters: the rows of the result are deleted and one row per
\* entry of chapters is inserted, in list order.
ChapterRow(result_id, ch) ==
  [result_id |-> result_id, chapter_index |-> ch.chapter_index,
   chapter_title |-> ch.chapter_title,
   has_changes |-> IF "has_changes" \in DOMAIN ch THEN ch.has_changes
                   ELSE has_meaningful_changes(ch.original, ch.corrected),
   original_text |-> ch.original, corrected_text |-> ch.corrected]
RowsOf(rows, result_id) == SelectSeq(rows, LAMBDA c : c.result_id = result_id)
RowsNotOf(rows, result_id) == SelectSeq(rows, LAMBDA c : c.result_id # result_id)
replace_chapters(rows, result_id, chapters) ==
  RowsNotOf(rows, result_id) \o
    [k \in 1..Len(chapters) |-> ChapterRow(result_id, chapters[k])]
\* PRIMARY KEY (result_id, chapter_index): an INSERT repeating an index
\* raises, and nothing is committed.
UniqueIndexes(chapters) ==
  \A a, b \in 1..Len(chapters) :
    chapters[a].chapter_index = chapters[b].chapter_index => a = b

\* ORDER BY chapter_index ASC.
RECURSIVE SortByIndex(_)
SortByIndex(rows) ==
  IF rows = <<>> THEN <<>>
  ELSE LET m == CHOOSE a \in 1..Len(rows) :
                  \A b \in 1..Len(rows) :
                    \/ rows[a].chapter_index < rows[b].chapter_index
                    \/ (rows[a].chapter_index = rows[b].chapter_index /\ a <= b)
       IN <<rows[m]>> \o
          SortByIndex(SubSeq(rows, 1, m - 1) \o SubSeq(rows, m + 1, Len(rows)))

\* get_result(result_id, include_text=True, include_chapter_meta=True):
\* what GET /api/results/{id} is built from.
get_result(rid) ==
  IF rid \notin DOMAIN store_results THEN None
  ELSE LET r == store_results[rid]
           meta == [result_id |-> r.result_id, task_id |-> r.task_id,
                    source |-> r.source, has_changes |-> r.has_changes,
                    use_chapters |-> r.use_chapters]
           rows == SortByIndex(RowsOf(store_chapters, rid))
       IN IF r.use_chapters
          THEN meta @@ [chapter_count |-> Len(rows),
                        chapters |-> [k \in 1..Len(rows) |->
                           [chapter_index |-> rows[k].chapter_index,
                            chapter_title |-> rows[k].chapter_title,
                            has_changes |-> rows[k].has_changes]]]
          ELSE meta @@ [original |-> r.original_text, corrected |-> r.corrected_text]

\* get_chapter(result_id, chapter_index).
get_chapter(rid, index) ==
  LET rows == SelectSeq(store_chapters,
                        LAMBDA c : c.result_id = rid /\ c.chapter_index = index)
  IN IF rows = <<>> THEN None
     ELSE [chapter_index |-> rows[1].chapter_index,
           chapter_title |-> rows[1].chapter_title,
           has_changes |-> rows[1].has_changes,
           original |-> rows[1].original_text,
           corrected |-> rows[1].corrected_text]

\* delete_result: foreign keys are enforced per connection; _connect opens
\* every connection with the build's default, and only _init_db's own
\* connection executes PRAGMA foreign_keys=ON.
delete_result_cascades == fk_default

\* ------------------------------------------- one upload and its worker
\* w_pc: "none" -> "start" -> "chapter" | "engine" -> "complete" |
\* "excepted" -> "done".  The worker's steps are the TaskManager operations
\* it performs between the awaits of the engine.

\* What correct_text hands back for a text (the shapes of Spec's results;
\* a text without a body line has no unit).
EngineResults(txt, nobody) ==
  IF nobody
  THEN {[EmptyReturn EXCEPT !.original = txt, !.corrected = txt],
        [DirectReturn EXCEPT !.original = txt]}
  ELSE {[DirectReturn EXCEPT !.original = txt],
        [ChunkedReturn(<<Fixed(1), Fixed(2)>>, <<>>, 2) EXCEPT !.original = txt],
        [ChunkedReturn(<<Unit(1), Unit(2)>>, <<>>, 2) EXCEPT !.original = txt],
        [ChunkedReturn(<<Fixed(1), Unit(2)>>, <<Failure(2, "Exception")>>, 2)
           EXCEPT !.original = txt]}
\* The every-unit-failed RuntimeError; str(e) is its message.
EngineErrors ==
  {ChunkedError(<<Failure(1, "Exception"), Failure(2, "Exception")>>)}
Message(e) == <<e.head, e.listed>>

\* The progress_callback calls of the run that returned r: one per unit
\* that succeeded.
Reports(r) ==
  IF r.total_chunks = 0 THEN <<>>
  ELSE LET fd == Get(r, "failure_details", None)
           failed == {fd[m].chunk_index : m \in 1..Len(fd)}
       IN SelectSeq([k \in 1..r.total_chunks |-> <<k, r.total_chunks>>],
                    LAMBDA c : c[1] \notin failed)

LogStatus(old, new) ==
  status_log' = IF new.status # old.status THEN Append(status_log, new.status)
                ELSE status_log

\* correct_file, lines 336-353: detect chapters, create_task, start the
\* worker.
CreateTask ==
  /\ w_pc = "none"
  /\ w_id' = Id(next_id)
  /\ next_id' = next_id + 1
  /\ tasks' = (Id(next_id) :> NewTask(detect_use_chapters(lines))) @@ tasks
  /\ status_log' = <<"pending">>
  /\ w_pc' = "start"
  /\ UNCHANGED <<lines, fk_default, store_results, store_chapters, w_chapters, w_k,
                 corrected_chapters, w_chunks, w_result, w_error, engine_log,
                 deleted, writes>>
  /\ UNCHANGED outside_worker

\* process_task_async up to its first await (lines 219-257, 298-303):
\* get_service may raise; with chapters, split and mark chapter 1.
WorkerStart ==
  /\ w_pc = "start"
  /\ \E service_ok \in BOOLEAN :
       IF ~service_ok
       THEN /\ w_pc' = "excepted"
            /\ w_error' = <<"get_service failed">>
            /\ UNCHANGED <<tasks, w_chapters, w_k>>
       ELSE IF tasks[w_id].use_chapters
       THEN LET chapters == split_by_chapters(lines)
            IN /\ w_chapters' = chapters
               /\ w_k' = 1
               /\ tasks' = [tasks EXCEPT ![w_id] =
                             update_chapter_status(@, chapters[1].chapter_index,
                                                   "processing")]
               /\ w_pc' = "chapter"
               /\ UNCHANGED w_error
       ELSE /\ w_pc' = "engine"
            /\ UNCHANGED <<tasks, w_chapters, w_k, w_error>>
  /\ UNCHANGED <<lines, fk_default, next_id, store_results, store_chapters, w_id,
                 corrected_chapters, w_chunks, w_result, status_log, engine_log,
                 deleted, writes>>
  /\ UNCHANGED outside_worker

\* The task dict after the run's progress callbacks (each overwrites the
\* progress of the one before).
WithReports(t, reports, offset, total, index) ==
  IF reports = <<>> THEN t
  ELSE update_task_progress(t, offset + reports[Len(reports)][1], total, index)

\* Lines 257-284: the engine returns for the current chapter.
ChapterReturns ==
  /\ w_pc = "chapter"
  /\ LET ch == w_chapters[w_k]
         index == ch.chapter_index
     IN \E r \in EngineResults(Text(ch.chapter_content), FALSE) :
          LET has_failures == Get(r, "has_failures", FALSE)
              failed == Get(r, "failed_chunks", 0)
              t1 == WithReports(tasks[w_id], Reports(r), w_chunks, w_chunks, index)
              t2 == update_chapter_status(t1, index,
                      IF has_failures /\ failed = Get(r, "total_chunks", 0)
                      THEN "failed" ELSE "completed")
              more == w_k < Len(w_chapters)
              t3 == IF more
                    THEN update_chapter_status(t2, w_chapters[w_k + 1].chapter_index,
                                               "processing")
                    ELSE t2
          IN /\ tasks' = [tasks EXCEPT ![w_id] = t3]
             /\ LogStatus(tasks[w_id], t3)
             /\ corrected_chapters' = Append(corrected_chapters,
                   [chapter_index |-> index, chapter_title |-> ch.chapter_title,
                    original |-> r.original, corrected |-> r.corrected,
                    has_changes |-> has_meaningful_changes(r.original, r.corrected),
                    chunks_processed |-> r.chunks_processed,
                    total_chunks |-> r.total_chunks,
                    failed_chunks |-> failed, has_failures |-> has_failures])
             /\ w_chunks' = w_chunks + r.total_chunks
             /\ engine_log' = Append(engine_log, r)
             /\ IF more THEN w_k' = w_k + 1 /\ w_pc' = "chapter"
                ELSE w_k' = w_k /\ w_pc' = "complete"
  /\ UNCHANGED <<lines, fk_default, next_id, store_results, store_chapters, w_id,
                 w_chapters, w_result, w_error, deleted, writes>>
  /\ UNCHANGED outside_worker

\* The engine raises its RuntimeError for the current chapter.
ChapterRaises ==
  /\ w_pc = "chapter"
  /\ \E e \in EngineErrors :
       /\ w_error' = Message(e)
       /\ engine_log' = Append(engine_log, e)
  /\ w_pc' = "excepted"
  /\ UNCHANGED <<lines, fk_default, next_id, tasks, store_results, store_chapters,
                 w_id, w_chapters, w_k, corrected_chapters, w_chunks, w_result,
                 status_log, deleted, writes>>
  /\ UNCHANGED outside_worker

\* Lines 300-303: the engine returns for the whole text.
EngineReturns ==
  /\ w_pc = "engine"
  /\ \E r \in EngineResults(WholeText(lines), ~HasBody(lines, WholeText(lines)[2])) :
       LET reports == Reports(r)
           t1 == IF reports = <<>> THEN tasks[w_id]
                 ELSE update_task_progress(tasks[w_id], reports[Len(reports)][1],
                                           reports[Len(reports)][2], 0)
       IN /\ tasks' = [tasks EXCEPT ![w_id] = t1]
          /\ LogStatus(tasks[w_id], t1)
          /\ w_result' = r
          /\ engine_log' = Append(engine_log, r)
  /\ w_pc' = "complete"
  /\ UNCHANGED <<lines, fk_default, next_id, store_results, store_chapters, w_id,
                 w_chapters, w_k, corrected_chapters, w_chunks, w_error, deleted, writes>>
  /\ UNCHANGED outside_worker

\* The engine raises its RuntimeError for the whole text.
EngineRaises ==
  /\ w_pc = "engine"
  /\ HasBody(lines, WholeText(lines)[2])
  /\ \E e \in EngineErrors :
       /\ w_error' = Message(e)
       /\ engine_log' = Append(engine_log, e)
  /\ w_pc' = "excepted"
  /\ UNCHANGED <<lines, fk_default, next_id, tasks, store_results, store_chapters,
                 w_id, w_chapters, w_k, corrected_chapters, w_chunks, w_result,
                 status_log, deleted, writes>>
  /\ UNCHANGED outside_worker

\* complete_task (task_manager.py 160-198): the task dict is completed
\* first; upsert_task is best-effort; upsert_result and replace_chapters
\* are not guarded, so a raising store write leaves complete_task with the
\* exception.  bool(chapters) is false for None and for [].
complete_task(tid, original, corrected, has_changes, chapters) ==
  /\ tasks' = [tasks EXCEPT ![tid] = CompletedTask(@)]
  /\ LogStatus(tasks[tid], CompletedTask(tasks[tid]))
  /\ LET use == chapters # <<>>
         row == ResultRow(tid, tid, "task", has_changes, use, original, corrected)
     IN \E fault \in {"none", "upsert_result"} \cup
                      (IF use THEN {"replace_chapters"} ELSE {}) :
          IF fault = "upsert_result"
          THEN /\ w_pc' = "excepted"
               /\ w_error' = <<"upsert_result failed">>
               /\ UNCHANGED <<store_results, store_chapters, writes>>
          ELSE IF fault = "replace_chapters" \/ (use /\ ~UniqueIndexes(chapters))
          THEN /\ w_pc' = "excepted"
               /\ w_error' = <<"replace_chapters failed">>
               /\ store_results' = upsert_result(store_results, row)
               /\ writes' = Written(writes, tid)
               /\ UNCHANGED store_chapters
          ELSE /\ w_pc' = "done"
               /\ store_results' = upsert_result(store_results, row)
               /\ writes' = Written(writes, tid)
               /\ store_chapters' = IF use
                                     THEN replace_chapters(store_chapters, tid, chapters)
                                     ELSE store_chapters
               /\ UNCHANGED w_error

\* "\n\n".join(title + "\n\n" + text for each chapter), main.py 287-294.
Joined(chapters, field) ==
  <<"joined", [k \in 1..Len(chapters) |->
                 <<chapters[k].chapter_title, chapters[k][field]>>]>>

\* Lines 286-297, resp. 305-306: the worker completes the task.
WorkerComplete ==
  /\ w_pc = "complete"
  /\ IF tasks[w_id].use_chapters
     THEN complete_task(w_id, Joined(corrected_chapters, "original"),
                        Joined(corrected_chapters, "corrected"),
                        \E k \in 1..Len(corrected_chapters) :
                          corrected_chapters[k].has_changes,
                        corrected_chapters)
     ELSE complete_task(w_id, w_result.original, w_result.corrected,
                        has_meaningful_changes(w_result.original, w_result.corrected),
                        <<>>)
  /\ UNCHANGED <<lines, fk_default, next_id, w_id, w_chapters, w_k,
                 corrected_chapters, w_chunks, w_result, engine_log, deleted>>
  /\ UNCHANGED outside_worker

\* fail_task that leaves the task as it is.
fail_task_Skipped(tid, err) ==
  UNCHANGED <<tasks, status_log>>

\* fail_task that keeps the error to itself.
fail_task_NoError(tid, err) ==
  /\ tasks' = [tasks EXCEPT ![tid] = FailedTask(@, None)]
  /\ LogStatus(tasks[tid], FailedTask(tasks[tid], None))

\* fail_task (task_manager.py 233-242).
fail_task(tid, err) ==
  /\ tasks' = [tasks EXCEPT ![tid] = FailedTask(@, err)]
  /\ LogStatus(tasks[tid], FailedTask(tasks[tid], err))

\* Lines 307-308: `except Exception as e: fail_task(task_id, str(e))`.
WorkerExcept ==
  /\ w_pc = "excepted"
  /\ fail_task(w_id, w_error)
  /\ w_pc' = "done"
  /\ UNCHANGED <<lines, fk_default, next_id, store_results, store_chapters, w_id,
                 w_chapters, w_k, corrected_chapters, w_chunks, w_result, w_error,
                 engine_log, deleted, writes>>
  /\ UNCHANGED outside_worker

\* The row a manual save writes for its n-th uuid: the request's texts,
\* the corrected one differing from the original.
ManualRow(rid, n) ==
  ResultRow(rid, None, "manual_input",
            has_meaningful_changes(<<"manual", n>>, <<"fixed", n>>), FALSE,
            <<"manual", n>>, <<"fixed", n>>)

\* save_manual_result writing under an id it was handed before.
SaveManual_ReusesId ==
  /\ next_id <= MaxIds
  /\ \E n \in 1..next_id :
       /\ store_results' = upsert_result(store_results, ManualRow(Id(n), next_id))
       /\ writes' = Written(writes, Id(n))
  /\ next_id' = next_id + 1
  /\ UNCHANGED <<lines, fk_default, tasks, store_chapters, w_pc, w_id, w_chapters,
                 w_k, corrected_chapters, w_chunks, w_result, w_error, status_log,
                 engine_log, deleted>>
  /\ UNCHANGED outside_worker

\* POST /api/results/manual and /api/correct: save_manual_result
\* (task_manager.py 200-231) under a new uuid4.
SaveManual ==
  /\ next_id <= MaxIds
  /\ store_results' = upsert_result(store_results, ManualRow(Id(next_id), next_id))
  /\ writes' = Written(writes, Id(next_id))
  /\ next_id' = next_id + 1
  /\ UNCHANGED <<lines, fk_default, tasks, store_chapters, w_pc, w_id, w_chapters,
                 w_k, corrected_chapters, w_chunks, w_result, w_error, status_log,
                 engine_log, deleted>>
  /\ UNCHANGED outside_worker

\* DELETE /api/results/{id}: delete_result (sqlite_store.py 408-418) on an
\* existing row; the chapter rows go with it when the connection enforces
\* foreign keys.
DeleteResult ==
  /\ \E rid \in DOMAIN store_results :
       /\ store_results' = [r \in DOMAIN store_results \ {rid} |-> store_results[r]]
       /\ store_chapters' = IF delete_result_cascades
                             THEN RowsNotOf(store_chapters, rid)
                             ELSE store_chapters
       /\ deleted' = deleted \cup {rid}
  /\ UNCHANGED <<lines, fk_default, next_id, tasks, w_pc, w_id, w_chapters, w_k,
                 corrected_chapters, w_chunks, w_result, w_error, status_log,
                 engine_log, writes>>
  /\ UNCHANGED outside_worker

\* The uploads: every text of at most n lines.
UploadsUpTo(n) == UNION {[1..m -> LineKinds] : m \in 0..n}

\* Before the upload: a text arrives at a server with an empty TaskManager
\* and empty tables.
InitUpload(texts) ==
  /\ LaterIdle
  /\ EngineIdle
  /\ RetryIdle
  /\ SchedIdle
  /\ lines \in texts
  /\ fk_default \in BOOLEAN
  /\ next_id = 1
  /\ tasks = NoRows
  /\ store_results = NoRows
  /\ store_chapters = <<>>
  /\ w_pc = "none"
  /\ w_id = <<>>
  /\ w_chapters = <<>>
  /\ w_k = 0
  /\ corrected_chapters = <<>>
  /\ w_chunks = 0
  /\ w_result = [none |-> TRUE]
  /\ w_error = <<>>
  /\ status_log = <<>>
  /\ engine_log = <<>>
  /\ deleted = {}
  /\ writes = NoRows

\* One upload and its worker, start to end.
InitWorker == InitUpload(UploadsUpTo(MaxLines))

NextWorker ==
  \/ CreateTask
  \/ WorkerStart
  \/ ChapterReturns
  \/ ChapterRaises
  \/ EngineReturns
  \/ EngineRaises
  \/ WorkerComplete
  \/ WorkerExcept

SpecWorker == InitWorker /\ [][NextWorker]_vars

\* The upload with clients saving manual results and deleting results
\* while the worker runs.
InitStore == InitUpload(UploadsUpTo(MaxStoreLines))

NextStore ==
  \/ CreateTask
  \/ WorkerStart
  \/ ChapterReturns
  \/ ChapterRaises
  \/ EngineReturns
  \/ EngineRaises
  \/ WorkerComplete
  \/ WorkerExcept
  \/ SaveManual
  \/ DeleteResult

SpecStore == InitStore /\ [][NextStore]_vars

\* ------------------------------------- background tasks on one event loop
\* correct_file starts one coroutine per upload (asyncio.create_task); each
\* runs the engine's loop, whose only suspension points are the awaits of
\* correct_text_with_retry: the adapter's request and the retry's sleep.
\* The event loop resumes any task whose await is over.
Event(t, u, e) == [task |-> t, unit |-> u, ev |-> e]

\* A loop that starts the next unit's call without awaiting the current one.
BeginCall_NoAwait(t) ==
  /\ t_pc[t] \in {"ready", "calling", "sleeping"}
  /\ t_unit[t] < t_total[t]
  /\ t_unit' = [t_unit EXCEPT ![t] = @ + 1]
  /\ t_attempt' = [t_attempt EXCEPT ![t] = 0]
  /\ t_pc' = [t_pc EXCEPT ![t] = "calling"]
  /\ in_flight' = in_flight \cup {<<t, t_unit[t] + 1>>}
  /\ call_events' = Append(call_events, Event(t, t_unit[t] + 1, "begin"))
  /\ UNCHANGED t_total
  /\ UNCHANGED outside_sched

\* The loop reaches `await self.adapter.correct_text_with_retry(chunk, ...)`
\* for the next unit; attempt 0 sends the request.
BeginCall(t) ==
  /\ t_pc[t] = "ready"
  /\ t_unit[t] < t_total[t]
  /\ t_unit' = [t_unit EXCEPT ![t] = @ + 1]
  /\ t_attempt' = [t_attempt EXCEPT ![t] = 0]
  /\ t_pc' = [t_pc EXCEPT ![t] = "calling"]
  /\ in_flight' = in_flight \cup {<<t, t_unit[t] + 1>>}
  /\ call_events' = Append(call_events, Event(t, t_unit[t] + 1, "begin"))
  /\ UNCHANGED t_total
  /\ UNCHANGED outside_sched

\* correct_text_with_retry is over (returned or raised); the loop goes on
\* to the next unit, or ends: no unit is left, or the engine stops.
EndCall(t, stop) ==
  /\ in_flight' = in_flight \ {<<t, t_unit[t]>>}
  /\ call_events' = Append(call_events, Event(t, t_unit[t], "end"))
  /\ t_pc' = [t_pc EXCEPT ![t] =
               IF stop \/ t_unit[t] = t_total[t] THEN "done" ELSE "ready"]

\* The request of the current attempt returns.
AttemptReturns(t) ==
  /\ t_pc[t] = "calling"
  /\ EndCall(t, FALSE)
  /\ UNCHANGED <<t_total, t_unit, t_attempt>>
  /\ UNCHANGED outside_sched

\* The request raises: sleep before the next attempt, or, after the last
\* attempt, raise into the engine's loop, which records the failure and
\* goes on or stops (ConnectionError, three consecutive failures).
AttemptRaises(t) ==
  /\ t_pc[t] = "calling"
  /\ IF t_attempt[t] < TaskRetries - 1
     THEN /\ t_pc' = [t_pc EXCEPT ![t] = "sleeping"]
          /\ UNCHANGED <<in_flight, call_events>>
     ELSE \E stop \in BOOLEAN : EndCall(t, stop)
  /\ UNCHANGED <<t_total, t_unit, t_attempt>>
  /\ UNCHANGED outside_sched

\* asyncio.sleep(delay) is over: the next attempt sends its request.
SleepOver(t) ==
  /\ t_pc[t] = "sleeping"
  /\ t_pc' = [t_pc EXCEPT ![t] = "calling"]
  /\ t_attempt' = [t_attempt EXCEPT ![t] = @ + 1]
  /\ UNCHANGED <<t_total, t_unit, in_flight, call_events>>
  /\ UNCHANGED outside_sched

InitTasks ==
  /\ LaterIdle
  /\ EngineIdle
  /\ RetryIdle
  /\ WorkerIdle
  /\ t_total \in [Tasks -> 1..MaxTaskUnits]
  /\ t_pc = [t \in Tasks |-> "ready"]
  /\ t_unit = [t \in Tasks |-> 0]
  /\ t_attempt = [t \in Tasks |-> 0]
  /\ in_flight = {}
  /\ call_events = <<>>

NextTasks ==
  \E t \in Tasks :
    \/ BeginCall(t)
    \/ AttemptReturns(t)
    \/ AttemptRaises(t)
    \/ SleepOver(t)

SpecTasks == InitTasks /\ [][NextTasks]_vars

\* ------------------------------------------ TaskManager's task snapshots
\* The TaskManager's operations on one task, called in any order, each
\* ending with a snapshot of the task dict into table tasks whose write may
\* raise.  w_id is the task; w_pc and w_error tell how the last
\* complete_task ended.

\* class TaskStatus(str, Enum) (task_manager.py 11-16): the values.
TaskStatus == {"pending", "processing", "completed", "failed"}

\* str(status) of a TaskStatus member: a class with the str mixin keeps
\* Enum's __str__, which gives the class and member name, not the value.
str_status(status) ==
  CASE status = "pending" -> "TaskStatus.PENDING"
    [] status = "processing" -> "TaskStatus.PROCESSING"
    [] status = "completed" -> "TaskStatus.COMPLETED"
    [] status = "failed" -> "TaskStatus.FAILED"
    [] OTHER -> status

\* The row upsert_task writes for the task dict t (sqlite_store.py 455-502):
\* column status is str(task.get("status")).
TaskRow(t) ==
  [status |-> str_status(t.status), use_chapters |-> t.use_chapters,
   progress_current |-> t.progress.current, progress_total |-> t.progress.total,
   chapter_progress_json |-> t.chapter_progress, error |-> t.error,
   completed_at |-> t.completed_at]
upsert_task(rows, tid, t) ==
  [r \in DOMAIN rows \cup {tid} |-> IF r = tid THEN TaskRow(t) ELSE rows[r]]

\* store.get_task and the items of store.list_tasks (sqlite_store.py
\* 506-583): the row's columns under the task dict's keys.
StoredTask(row) ==
  [status |-> row.status, use_chapters |-> row.use_chapters,
   progress |-> [current |-> row.progress_current, total |-> row.progress_total],
   chapter_progress |-> row.chapter_progress_json, error |-> row.error,
   completed_at |-> row.completed_at]
store_get_task(tid) ==
  IF tid \in DOMAIN store_tasks THEN StoredTask(store_tasks[tid]) ELSE None
list_tasks == [tid \in DOMAIN store_tasks |-> StoredTask(store_tasks[tid])]

\* TaskManager.get_all_tasks (task_manager.py 244-260), by task id: the
\* persisted tasks with the in-memory ones over them; the in-memory ones
\* alone when the store's listing raises.
get_all_tasks(listed) ==
  IF listed
  THEN [tid \in DOMAIN list_tasks \cup DOMAIN tasks |->
          IF tid \in DOMAIN tasks THEN tasks[tid] ELSE list_tasks[tid]]
  ELSE tasks

\* A snapshot whose failure reaches the caller.
SnapshotRaises_Unguarded(ok) == ~ok

\* `try: self.store.upsert_task(...)  except Exception: pass`: whether the
\* exception of a write that failed (~ok) leaves the operation.
SnapshotRaises(ok) == FALSE

\* The snapshot of the task as the operation leaves it, and the record of
\* the call: what was called, whether the snapshot was written, and the
\* exception the caller gets (None: the call returned).
Snapshot(tid, call, ok, raised) ==
  /\ store_tasks' = IF ok THEN upsert_task(store_tasks, tid, tasks'[tid])
                    ELSE store_tasks
  /\ tm_op' = call @@ [snapshot_ok |-> ok,
                       raised |-> IF SnapshotRaises(ok)
                                  THEN <<"upsert_task failed">> ELSE raised]
  /\ tm_calls' = tm_calls + 1

\* What a TaskManager call leaves alone.
outside_snap == <<engine_vars, retry_vars, sched_vars, lines, fk_default,
                  w_chapters, w_k, corrected_chapters, w_chunks, w_result,
                  engine_log, deleted, page_vars, legacy_vars, more_vars>>

\* create_task (task_manager.py 41-86).
TmCreate ==
  /\ tasks = NoRows
  /\ tm_calls < MaxCalls
  /\ \E use \in BOOLEAN, ok \in BOOLEAN :
       /\ w_id' = Id(next_id)
       /\ next_id' = next_id + 1
       /\ tasks' = (Id(next_id) :> NewTask(use)) @@ tasks
       /\ status_log' = <<"pending">>
       /\ Snapshot(Id(next_id), [op |-> "create_task"], ok, None)
  /\ UNCHANGED <<store_results, store_chapters, w_pc, w_error, writes>>
  /\ UNCHANGED outside_snap

\* update_task_progress (task_manager.py 92-129); index 0: no chapter_index.
TmProgress ==
  /\ tasks # NoRows
  /\ tm_calls < MaxCalls
  /\ \E current \in 1..2, index \in 0..2, ok \in BOOLEAN :
       LET t1 == update_task_progress(tasks[w_id], current, 2, index)
       IN /\ tasks' = [tasks EXCEPT ![w_id] = t1]
          /\ LogStatus(tasks[w_id], t1)
          /\ Snapshot(w_id, [op |-> "update_task_progress", current |-> current,
                       total |-> 2, index |-> index], ok, None)
  /\ UNCHANGED <<next_id, store_results, store_chapters, w_pc, w_id, w_error,
                 writes>>
  /\ UNCHANGED outside_snap

\* update_chapter_status (task_manager.py 131-158): nothing happens, and
\* no snapshot is taken, for a task without chapters.
TmChapterStatus ==
  /\ tasks # NoRows
  /\ tm_calls < MaxCalls
  /\ \E index \in 1..2, status \in {"processing", "completed", "failed"},
        ok \in BOOLEAN :
       LET call == [op |-> "update_chapter_status", index |-> index,
                    status |-> status]
       IN /\ tasks' = [tasks EXCEPT ![w_id] = update_chapter_status(@, index, status)]
          /\ IF tasks[w_id].use_chapters
             THEN Snapshot(w_id, call, ok, None)
             ELSE /\ tm_op' = call @@ [snapshot_ok |-> TRUE, raised |-> None]
                  /\ tm_calls' = tm_calls + 1
                  /\ UNCHANGED store_tasks
  /\ UNCHANGED <<next_id, store_results, store_chapters, w_pc, w_id, w_error,
                 status_log, writes>>
  /\ UNCHANGED outside_snap

\* The chapters complete_task is handed: none, or one corrected chapter.
TmChapters ==
  {<<>>,
   <<[chapter_index |-> 1, chapter_title |-> <<"title", 1>>,
      original |-> Text(<<2>>), corrected |-> Fixed(1), has_changes |-> TRUE]>>}

\* complete_task (task_manager.py 160-198).
TmComplete ==
  /\ tasks # NoRows
  /\ tm_calls < MaxCalls
  /\ \E chapters \in TmChapters, ok \in BOOLEAN :
       /\ complete_task(w_id, Text(<<1, 2>>), Fixed(0), TRUE, chapters)
       /\ Snapshot(w_id, [op |-> "complete_task"], ok,
                   IF w_pc' = "excepted" THEN w_error' ELSE None)
  /\ UNCHANGED <<next_id, w_id>>
  /\ UNCHANGED outside_snap

\* fail_task (task_manager.py 233-242).
TmFail ==
  /\ tasks # NoRows
  /\ tm_calls < MaxCalls
  /\ \E ok \in BOOLEAN :
       /\ fail_task(w_id, <<"error">>)
       /\ Snapshot(w_id, [op |-> "fail_task", error |-> <<"error">>], ok, None)
  /\ UNCHANGED <<next_id, store_results, store_chapters, w_pc, w_id, w_error,
                 writes>>
  /\ UNCHANGED outside_snap

InitSnapshots ==
  /\ EngineIdle
  /\ RetryIdle
  /\ SchedIdle
  /\ WorkerIdle
  /\ MoreIdle
  /\ SnapIdle
  /\ PageIdle
  /\ LegacyIdle

NextSnapshots ==
  \/ TmCreate
  \/ TmProgress
  \/ TmChapterStatus
  \/ TmComplete
  \/ TmFail

SpecSnapshots == InitSnapshots /\ [][NextSnapshots]_vars

\* ------------------------------------------ the task listing and restarts
\* TaskManager.get_task (task_manager.py 88-90): the in-memory dict only.
get_task(tid) == IF tid \in DOMAIN tasks THEN tasks[tid] ELSE None

\* cleanup_old_tasks (task_manager.py 281-293) when the task is older than
\* the cutoff: it leaves the in-memory dict; its row in the store stays.
CleanupOldTasks ==
  /\ tasks # NoRows
  /\ tm_calls < MaxCalls
  /\ tasks' = NoRows
  /\ tm_op' = [op |-> "cleanup_old_tasks", snapshot_ok |-> TRUE, raised |-> None]
  /\ tm_calls' = tm_calls + 1
  /\ UNCHANGED <<next_id, store_results, store_chapters, w_pc, w_id, w_error,
                 status_log, writes, store_tasks>>
  /\ UNCHANGED outside_snap

\* The process stops and starts again: `task_manager = TaskManager()`
\* (task_manager.py 296-297) begins with an empty dict over the same
\* database.
Restart ==
  /\ tm_calls < MaxCalls
  /\ tasks' = NoRows
  /\ w_pc' = "none"
  /\ w_error' = <<>>
  /\ tm_op' = [op |-> "restart", snapshot_ok |-> TRUE, raised |-> None]
  /\ tm_calls' = tm_calls + 1
  /\ UNCHANGED <<next_id, store_results, store_chapters, w_id, status_log,
                 writes, store_tasks>>
  /\ UNCHANGED outside_snap

NextListing ==
  \/ TmCreate
  \/ TmProgress
  \/ TmChapterStatus
  \/ TmComplete
  \/ TmFail
  \/ CleanupOldTasks
  \/ Restart

SpecListing == InitSnapshots /\ [][NextListing]_vars

\* ------------------------------------------------ SqliteStore.list_results
\* A row of table results as the listing reads it: created_at is never
\* NULL, completed_at is NULL (written 0) or a timestamp.
Null == 0
Coalesce(a, b) == IF a # Null THEN a ELSE b
OrderKey(row) == Coalesce(row.completed_at, row.created_at)

\* ORDER BY COALESCE(completed_at, created_at) DESC over a scan of the
\* table: SQLite sorts a query with a LIMIT through an index on the key and
\* the row's sequence number in the scan, so rows with equal keys keep
\* their scan order.
RECURSIVE OrderByKeyDesc(_)
OrderByKeyDesc(rows) ==
  IF rows = <<>> THEN <<>>
  ELSE LET m == CHOOSE a \in 1..Len(rows) :
                  \A b \in 1..Len(rows) :
                    \/ OrderKey(rows[a]) > OrderKey(rows[b])
                    \/ (OrderKey(rows[a]) = OrderKey(rows[b]) /\ a <= b)
       IN <<rows[m]>> \o
          OrderByKeyDesc(SubSeq(rows, 1, m - 1) \o SubSeq(rows, m + 1, Len(rows)))

Max(a, b) == IF a > b THEN a ELSE b

\* A listing whose OFFSET is taken one row too far.
list_results_SkipsOne(rows, limit, offset) ==
  LET l == Max(1, Min(limit, MaxPageSize))
      o == Max(0, offset) + 1
      sorted == OrderByKeyDesc(rows)
  IN SubSeq(sorted, o + 1, Min(o + l, Len(sorted)))

\* list_results(limit, offset).items (sqlite_store.py 273-324): both
\* arguments are clamped, then LIMIT l OFFSET o of the ordered rows.
list_results(rows, limit, offset) ==
  LET l == Max(1, Min(limit, MaxPageSize))
      o == Max(0, offset)
      sorted == OrderByKeyDesc(rows)
  IN SubSeq(sorted, o + 1, Min(o + l, Len(sorted)))

\* The page sizes a client asks for.
PageSizes == {1, 2, 3, MaxPageSize}

\* What a request of the paging client leaves alone.
outside_page == <<engine_vars, retry_vars, sched_vars, worker_vars, snap_vars,
                  legacy_vars, more_vars>>

\* The client asks for the next page, list_results(limit, offset), and
\* goes on with offset + limit until a page comes back empty.
NextPage ==
  /\ pg_pc = "paging"
  /\ LET items == list_results(res_table, pg_limit, pg_offset)
     IN IF items = <<>>
        THEN /\ pg_pc' = "done"
             /\ UNCHANGED <<pg_out, pg_offset>>
        ELSE /\ pg_out' = pg_out \o items
             /\ pg_offset' = pg_offset + pg_limit
             /\ UNCHANGED pg_pc
  /\ UNCHANGED <<res_table, pg_limit>>
  /\ UNCHANGED outside_page

\* The tables of at most n rows: row k of the scan has result_id Id(k), a
\* created_at and a completed_at that may be NULL.
ResultTables(n) ==
  UNION {[1..m -> [created_at : 1..MaxStamp, completed_at : 0..MaxStamp]]
           : m \in 0..n}
WithIds(t) ==
  [k \in 1..Len(t) |-> [result_id |-> Id(k), created_at |-> t[k].created_at,
                        completed_at |-> t[k].completed_at]]

InitPaging ==
  /\ EngineIdle
  /\ RetryIdle
  /\ SchedIdle
  /\ WorkerIdle
  /\ MoreIdle
  /\ SnapIdle
  /\ LegacyIdle
  /\ \E t \in ResultTables(MaxRows) : res_table = WithIds(t)
  /\ pg_limit \in PageSizes
  /\ pg_offset = 0
  /\ pg_out = <<>>
  /\ pg_pc = "paging"

NextPaging == NextPage

SpecPaging == InitPaging /\ [][NextPaging]_vars

\* ------------------------------------- SqliteStore: the legacy results.json
\* A file is [shape, entries].  shape says what reading it gives:
\*   "absent"      no such file
\*   "unreadable"  open() or the utf-8 decoding raises
\*   "invalid"     json.load raises
\*   "mapping"     a JSON object; entries are its values, in order
\*   "list"        a non-empty JSON list
\*   "scalar"      a number, string or true that Python takes as true
\*   "falsy"       null, [], 0, "" or false
\* A value of the mapping is [kind, id]:
\*   "plain"         a result with result_id Id(id) and its texts
\*   "chapters"      a result with result_id Id(id) and two chapters
\*   "dup_chapters"  the same, both chapters with chapter_index 1
\*   "no_id"         an object without result_id
\*   "not_a_dict"    a value that is no object
EntryKinds == {"plain", "chapters", "dup_chapters", "no_id", "not_a_dict"}
LegacyEntries == [kind : EntryKinds, id : 1..2]
File(shape, entries) == [shape |-> shape, entries |-> entries]
LegacyFiles(n) ==
  {File(sh, <<>>) : sh \in {"absent", "unreadable", "invalid", "list", "scalar",
                            "falsy"}}
    \cup {File("mapping", es) : es \in UNION {[1..m -> LegacyEntries] : m \in 0..n}}

LegacyChapter(index, id) ==
  [chapter_index |-> index, chapter_title |-> <<"title", index>>,
   original |-> Text(<<index>>), corrected |-> Fixed(id), has_changes |-> TRUE]
LegacyChapters(e) ==
  CASE e.kind = "chapters" -> <<LegacyChapter(1, e.id), LegacyChapter(2, e.id)>>
    [] e.kind = "dup_chapters" -> <<LegacyChapter(1, e.id), LegacyChapter(1, e.id)>>
    [] OTHER -> <<>>

\* upsert_result_from_legacy (sqlite_store.py 171-201) inside the loop's
\* `try ... except Exception: continue`: the tables db = [results,
\* chapters] after the value e.  A value that is no object raises at its
\* first .get; one without result_id is passed over; replace_chapters
\* raises on a repeated chapter_index after the result row is committed.
upsert_result_from_legacy(db, e) ==
  IF e.kind \in {"not_a_dict", "no_id"} THEN db
  ELSE LET chapters == LegacyChapters(e)
           use == chapters # <<>>
           row == ResultRow(Id(e.id), None, "manual_input", TRUE, use,
                            IF use THEN Text(<<>>) ELSE Text(<<e.id>>),
                            IF use THEN Text(<<>>) ELSE Fixed(e.id))
           results == upsert_result(db.results, row)
       IN IF use /\ UniqueIndexes(chapters)
          THEN [results |-> results,
                chapters |-> replace_chapters(db.chapters, Id(e.id), chapters)]
          ELSE [results |-> results, chapters |-> db.chapters]

\* The loop over the values of the mapping.
RECURSIVE MigrateAll(_, _)
MigrateAll(db, entries) ==
  IF entries = <<>> THEN db
  ELSE MigrateAll(upsert_result_from_legacy(db, Head(entries)), Tail(entries))

\* `for _, result in (legacy or {}).items()`: what the loop iterates for
\* the parsed value, or that .items() raises AttributeError.
ItemsRaises(file) == file.shape \in {"list", "scalar"}
ItemsOf(file) == IF file.shape = "mapping" THEN file.entries ELSE <<>>

\* Whether _maybe_migrate_legacy_results_json, once past the parsing,
\* raises: the loop header is outside every try.
MigrationRaises(file) == ItemsRaises(file)

\* A migration that does not look at the results table first.
MigrationDue_AnyTable ==
  /\ legacy_json.shape # "absent"
  /\ legacy_bak.shape = "absent"

\* Whether the migration gets as far as reading the file (lines 134-149).
MigrationDue ==
  /\ legacy_json.shape # "absent"
  /\ legacy_bak.shape = "absent"
  /\ DOMAIN store_results = {}
Parses(file) == file.shape \notin {"unreadable", "invalid"}

\* The record of a start.
StartRecord(raised, migrated) ==
  [json_before |-> legacy_json, bak_before |-> legacy_bak,
   empty_before |-> DOMAIN store_results = {},
   raised |-> raised, migrated |-> migrated,
   results |-> store_results', chapters |-> store_chapters',
   json_after |-> legacy_json', bak_after |-> legacy_bak']

\* What a start of the store leaves alone.
outside_legacy == <<engine_vars, retry_vars, sched_vars, lines, fk_default,
                    next_id, tasks, w_pc, w_id, w_chapters, w_k,
                    corrected_chapters, w_chunks, w_result, w_error, status_log,
                    engine_log, deleted, writes, snap_vars, page_vars, more_vars>>

\* SqliteStore(cache_dir) (lines 30-36): _init_db, which keeps the tables
\* that exist, then the migration.  A failing shutil.move is swallowed.
StartStore ==
  /\ Len(start_log) < MaxStarts
  /\ IF ~(MigrationDue /\ Parses(legacy_json))
     THEN /\ UNCHANGED <<store_results, store_chapters, legacy_json, legacy_bak>>
          /\ start_log' = Append(start_log, StartRecord(FALSE, FALSE))
     ELSE IF MigrationRaises(legacy_json)
     THEN /\ UNCHANGED <<store_results, store_chapters, legacy_json, legacy_bak>>
          /\ start_log' = Append(start_log, StartRecord(TRUE, FALSE))
     ELSE LET db == MigrateAll([results |-> store_results,
                                chapters |-> store_chapters],
                               ItemsOf(legacy_json))
          IN /\ store_results' = db.results
             /\ store_chapters' = db.chapters
             /\ \E move_ok \in BOOLEAN :
                  IF move_ok
                  THEN legacy_bak' = legacy_json /\ legacy_json' = NoFile
                  ELSE UNCHANGED <<legacy_json, legacy_bak>>
             /\ start_log' = Append(start_log, StartRecord(FALSE, TRUE))
  /\ UNCHANGED outside_legacy

\* A result row from an earlier life of the database.
EarlierRow == ResultRow(Id(0), None, "manual_input", TRUE, FALSE, Text(<<0>>), Fixed(0))

\* Before the first start: any results.json of at most MaxLegacy results,
\* with or without a results.json.bak, and a database that is new or holds
\* a result.
InitLegacy ==
  /\ EngineIdle
  /\ RetryIdle
  /\ SchedIdle
  /\ MoreIdle
  /\ SnapIdle
  /\ PageIdle
  /\ lines = <<>>
  /\ fk_default = FALSE
  /\ next_id = 1
  /\ tasks = NoRows
  /\ store_results \in {NoRows, upsert_result(NoRows, EarlierRow)}
  /\ store_chapters = <<>>
  /\ w_pc = "none"
  /\ w_id = <<>>
  /\ w_chapters = <<>>
  /\ w_k = 0
  /\ corrected_chapters = <<>>
  /\ w_chunks = 0
  /\ w_result = [none |-> TRUE]
  /\ w_error = <<>>
  /\ status_log = <<>>
  /\ engine_log = <<>>
  /\ deleted = {}
  /\ writes = NoRows
  /\ legacy_json \in LegacyFiles(MaxLegacy)
  /\ legacy_bak \in {NoFile, File("mapping", <<>>)}
  /\ start_log = <<>>

NextLegacy == StartStore

SpecLegacy == InitLegacy /\ [][NextLegacy]_vars

\* ------------------------------------------- runtime config and services
\* POST /api/config validates each field on its own, hands the accepted ones
\* to Settings.update_runtime_config and clears the cached services;
\* get_service builds a CorrectionService on a cache miss, and the service's
\* TextSplitter reads chunk_size and chunk_overlap from the settings.

\* The request bodies tried: which keys are present, and their values.
ConfigKeys == {"chunk_size", "chunk_overlap", "default_model"}
SizeInputs == {0, 100, DefaultChunkSize}
OverlapInputs == {0 - 1, 0, DefaultChunkOverlap, DefaultChunkSize}
ModelInputs == {DefaultModelName, "gpt-4"}

\* persist is not set, or save_to_env_file writes the file, returns False
\* or raises.
SaveOutcomes == {"none", "saved", "failed", "raised"}

\* The response of update_config reads settings.ollama_chunk_size and
\* settings.ollama_chunk_overlap; the revision of Settings that declares
\* them is the one the specification describes.
SettingsHasOllamaFields == TRUE

\* The checks of update_config, in order; the first that fails answers 400.
Rejected(has, size, overlap) ==
  \/ "chunk_size" \in has /\ size <= 0
  \/ "chunk_overlap" \in has /\ overlap < 0
  \/ has = {}

\* A variant of the cache flush that keeps the services.
Flushed_Kept(cache) == cache

\* _services.clear()
Flushed(cache) == [k \in ServiceKeys |-> NoService]

\* TextSplitter.__init__ with no arguments: the settings' values, refused
\* when the overlap is not below the size.
SplitterRaises(size, overlap) == overlap >= size

\* CorrectionService(provider, model_name) for a key of the cache.
NewService(key) ==
  [born |-> cfg_epoch, chunk_size |-> chunk_size,
   chunk_overlap |-> chunk_overlap,
   model_name |-> IF key = "default:default" THEN default_model_name
                  ELSE "gpt-4"]

\* What is left alone by the config endpoint and get_service.
outside_config == <<engine_vars, retry_vars, sched_vars, worker_vars,
                    snap_vars, page_vars, legacy_vars, sentence_vars,
                    split_vars, diff_vars, tail_vars>>

\* POST /api/config with a body that fails validation: 400, nothing done.
UpdateConfigRejected ==
  \E has \in SUBSET ConfigKeys, size \in SizeInputs, overlap \in OverlapInputs :
    /\ Rejected(has, size, overlap)
    /\ http_status' = 400
    /\ UNCHANGED <<chunk_size, chunk_overlap, default_model_name, services,
                   cfg_epoch, env_file, got>>
    /\ UNCHANGED outside_config

\* POST /api/config with a body that passes: the settings are updated, the
\* cache is cleared, the .env file is rewritten when persist is set.
UpdateConfig ==
  \E has \in SUBSET ConfigKeys, size \in SizeInputs, overlap \in OverlapInputs,
     model \in ModelInputs, save \in SaveOutcomes :
    /\ cfg_epoch < MaxEpoch
    /\ ~Rejected(has, size, overlap)
    /\ chunk_size' = IF "chunk_size" \in has THEN size ELSE chunk_size
    /\ chunk_overlap' = IF "chunk_overlap" \in has THEN overlap
                        ELSE chunk_overlap
    /\ default_model_name' = IF "default_model" \in has THEN model
                             ELSE default_model_name
    /\ cfg_epoch' = cfg_epoch + 1
    /\ services' = Flushed(services)
    /\ env_file' = IF save = "saved"
                   THEN [born |-> 0, chunk_size |-> chunk_size',
                         chunk_overlap |-> chunk_overlap',
                         model_name |-> default_model_name']
                   ELSE env_file
    /\ http_status' = IF save = "raised" \/ ~SettingsHasOllamaFields
                      THEN 500 ELSE 200
    /\ got' = got
    /\ UNCHANGED outside_config

\* get_service(provider, model_name): the cached instance, or a new one,
\* which is cached unless its construction raises.
GetService ==
  \E key \in ServiceKeys :
    /\ IF services[key] # NoService
       THEN /\ got' = [key |-> key, raised |-> FALSE, service |-> services[key]]
            /\ services' = services
       ELSE IF SplitterRaises(chunk_size, chunk_overlap)
       THEN /\ got' = [key |-> key, raised |-> TRUE, service |-> NoService]
            /\ services' = services
       ELSE /\ services' = [services EXCEPT ![key] = NewService(key)]
            /\ got' = [key |-> key, raised |-> FALSE, service |-> NewService(key)]
    /\ UNCHANGED <<chunk_size, chunk_overlap, default_model_name, cfg_epoch,
                   http_status, env_file>>
    /\ UNCHANGED outside_config

InitConfig ==
  /\ EngineIdle
  /\ RetryIdle
  /\ SchedIdle
  /\ WorkerIdle
  /\ SnapIdle
  /\ PageIdle
  /\ LegacyIdle
  /\ ConfigIdle
  /\ SentenceIdle
  /\ SplitIdle
  /\ DiffIdle
  /\ TailIdle

NextConfig ==
  \/ UpdateConfigRejected
  \/ UpdateConfig
  \/ GetService

SpecConfig == InitConfig /\ [][NextConfig]_vars

\* ------------------------------------------------- texts as characters
\* A text is a sequence of characters; each carries the position it has in
\* the argument text, which no operation below reads. The letter "a" stands
\* for any character that is neither whitespace nor punctuation, "." for
\* the full stop and "," for the comma of the source.
Space == " "
Newline == "n"
Stop == "."
Comma == ","
Letter == "a"
Whitespace == {Space, Newline}
SentenceAlphabet == {Letter, Space, Stop, Comma, Newline}
SplitAlphabet == {Letter, Space, Stop, Newline}

\* The texts of up to n characters over an alphabet, positions attached.
TextsUpTo(n, alphabet) ==
  UNION {{[k \in 1..m |-> [c |-> f[k], p |-> k]] : f \in [1..m -> alphabet]}
         : m \in 0..n}

Glyphs(s) == [k \in DOMAIN s |-> s[k].c]

\* str.rstrip(), str.lstrip(), str.strip()
RECURSIVE RStrip(_)
RStrip(s) ==
  IF s = <<>> THEN s
  ELSE IF s[Len(s)].c \in Whitespace THEN RStrip(SubSeq(s, 1, Len(s) - 1))
  ELSE s

RECURSIVE LStrip(_)
LStrip(s) ==
  IF s = <<>> THEN s
  ELSE IF s[1].c \in Whitespace THEN LStrip(SubSeq(s, 2, Len(s)))
  ELSE s

Strip(s) == LStrip(RStrip(s))

\* s.replace(" ", "").replace("\n", ""): the characters that are not
\* whitespace.
RECURSIVE Visible(_)
Visible(s) ==
  IF s = <<>> THEN <<>>
  ELSE IF Head(s).c \in Whitespace THEN Visible(Tail(s))
  ELSE <<Head(s)>> \o Visible(Tail(s))

\* The first position of s that holds one of seps, 0 when there is none.
FindAny(s, seps) ==
  IF \E k \in DOMAIN s : s[k].c \in seps
  THEN CHOOSE k \in DOMAIN s :
         /\ s[k].c \in seps
         /\ \A j \in 1..(k - 1) : s[j].c \notin seps
  ELSE 0

\* re.split(r'([seps])', s): the pieces between separators, alternating
\* with the separators themselves.
RECURSIVE ReSplit(_, _)
ReSplit(s, seps) ==
  LET k == FindAny(s, seps) IN
  IF k = 0 THEN <<s>>
  ELSE <<SubSeq(s, 1, k - 1), <<s[k]>>>> \o ReSplit(SubSeq(s, k + 1, Len(s)), seps)

\* ---------------------------------------------------- per-sentence mode
\* _force_split: pieces of max_len characters, the last one shorter.
RECURSIVE _force_split(_, _)
_force_split(s, max_len) ==
  IF Len(s) <= max_len THEN <<s>>
  ELSE <<SubSeq(s, 1, max_len)>>
         \o _force_split(SubSeq(s, max_len + 1, Len(s)), max_len)

IsSeparator(part, seps) == Len(part) = 1 /\ part[1].c \in seps

\* The loop of _split_by_comma over parts k, k+1, ...
RECURSIVE CommaLoop(_, _, _, _, _)
CommaLoop(parts, k, out, current_part, max_len) ==
  IF k > Len(parts)
  THEN IF current_part # <<>> THEN Append(out, current_part) ELSE out
  ELSE LET part == parts[k] IN
    IF IsSeparator(part, {Comma})
    THEN IF current_part # <<>>
         THEN IF Len(current_part) + 1 <= max_len
              THEN CommaLoop(parts, k + 1, Append(out, current_part \o part),
                             <<>>, max_len)
              ELSE CommaLoop(parts, k + 1,
                             Append(out \o _force_split(current_part, max_len),
                                    part),
                             <<>>, max_len)
         ELSE CommaLoop(parts, k + 1, Append(out, part), <<>>, max_len)
    ELSE IF Strip(part) # <<>>
    THEN IF Len(current_part \o part) <= max_len
         THEN CommaLoop(parts, k + 1, out, current_part \o part, max_len)
         ELSE LET kept == IF current_part # <<>>
                          THEN Append(out, current_part) ELSE out IN
              IF Len(part) > max_len
              THEN CommaLoop(parts, k + 1, kept \o _force_split(part, max_len),
                             current_part, max_len)
              ELSE CommaLoop(parts, k + 1, kept, part, max_len)
    ELSE CommaLoop(parts, k + 1, out, current_part, max_len)

_split_by_comma(s, max_len) ==
  IF Len(s) <= max_len THEN <<s>>
  ELSE LET out == CommaLoop(ReSplit(s, {Comma}), 1, <<>>, <<>>, max_len) IN
       IF out # <<>> THEN out ELSE <<s>>

\* The loop of _split_by_punctuation over parts k, k+1, ...
RECURSIVE PunctuationLoop(_, _, _, _, _)
PunctuationLoop(parts, k, out, current_sentence, max_len) ==
  IF k > Len(parts)
  THEN IF current_sentence # <<>> THEN Append(out, current_sentence)
       ELSE out
  ELSE LET part == parts[k] IN
    IF IsSeparator(part, {Stop})
    THEN IF current_sentence # <<>>
         THEN IF Len(current_sentence) + 1 <= max_len
              THEN PunctuationLoop(parts, k + 1,
                                   Append(out, current_sentence \o part),
                                   <<>>, max_len)
              ELSE PunctuationLoop(parts, k + 1,
                     Append(out \o _split_by_comma(current_sentence, max_len),
                            part),
                     <<>>, max_len)
         ELSE PunctuationLoop(parts, k + 1, Append(out, part), <<>>, max_len)
    ELSE IF Strip(part) # <<>>
    THEN IF Len(current_sentence \o part) <= max_len
         THEN PunctuationLoop(parts, k + 1, out, current_sentence \o part,
                              max_len)
         ELSE LET kept == IF current_sentence # <<>>
                          THEN Append(out, current_sentence) ELSE out IN
              IF Len(part) > max_len
              THEN PunctuationLoop(parts, k + 1,
                                   kept \o _split_by_comma(part, max_len),
                                   current_sentence, max_len)
              ELSE PunctuationLoop(parts, k + 1, kept, part, max_len)
    ELSE PunctuationLoop(parts, k + 1, out, current_sentence, max_len)

_split_by_punctuation(s, max_len) ==
  IF Len(s) <= max_len THEN <<s>>
  ELSE LET out == PunctuationLoop(ReSplit(s, {Stop}), 1, <<>>, <<>>, max_len)
       IN IF out # <<>> THEN out ELSE <<s>>

\* line.rstrip()
TrimLine(line) == RStrip(line)

\* A sentence and the line ending recorded for it.
Sentence(s, ending) == [s |-> s, ending |-> ending]

\* The sentences of one line; ending is the newline after it, or nothing.
LineSentences(raw, ending, max_length) ==
  LET line == TrimLine(raw) IN
  IF Strip(line) = <<>> THEN <<Sentence(<<>>, ending)>>
  ELSE IF Len(line) <= max_length THEN <<Sentence(line, ending)>>
  ELSE LET pieces == _split_by_punctuation(line, max_length) IN
       [k \in 1..Len(pieces) |->
          Sentence(pieces[k], IF k < Len(pieces) THEN <<>> ELSE ending)]

\* The loop of _split_by_sentences over text.split('\n'), given as the
\* lines alternating with the newlines between them.
RECURSIVE LinesLoop(_, _, _)
LinesLoop(parts, k, max_length) ==
  IF k > Len(parts) THEN <<>>
  ELSE LineSentences(parts[k], IF k < Len(parts) THEN parts[k + 1] ELSE <<>>,
                     max_length)
         \o LinesLoop(parts, k + 2, max_length)

_split_by_sentences(s, max_length) ==
  IF s = <<>> THEN <<>> ELSE LinesLoop(ReSplit(s, {Newline}), 1, max_length)

\* correct_text in per-sentence mode with an adapter that returns what it
\* is given and no pre-corrector: the sentences joined with their endings.
RECURSIVE JoinSentences(_)
JoinSentences(sentences) ==
  IF sentences = <<>> THEN <<>>
  ELSE Head(sentences).s \o Head(sentences).ending
         \o JoinSentences(Tail(sentences))

outside_sentence == <<engine_vars, retry_vars, sched_vars, worker_vars,
                      snap_vars, page_vars, legacy_vars, config_vars,
                      split_vars, diff_vars, tail_vars>>

\* correct_text(text) of an Ollama service whose adapter echoes its input.
CorrectBySentences ==
  /\ st_pc = "ready"
  /\ st_sentences' = _split_by_sentences(st_text, st_limit)
  /\ st_out' = IF st_sentences' = <<>> THEN st_text
               ELSE JoinSentences(st_sentences')
  /\ st_pc' = "done"
  /\ UNCHANGED <<st_text, st_limit>>
  /\ UNCHANGED outside_sentence

InitSentences ==
  /\ EngineIdle
  /\ RetryIdle
  /\ SchedIdle
  /\ WorkerIdle
  /\ SnapIdle
  /\ PageIdle
  /\ LegacyIdle
  /\ ConfigIdle
  /\ SplitIdle
  /\ DiffIdle
  /\ TailIdle
  /\ st_text \in TextsUpTo(MaxTextLen, SentenceAlphabet)
  /\ st_limit \in 2..MaxSize
  /\ st_sentences = <<>>
  /\ st_out = <<>>
  /\ st_pc = "ready"

NextSentences == CorrectBySentences

SpecSentences == InitSentences /\ [][NextSentences]_vars

\* ------------------------------------------------- the recursive splitter
\* The paragraph separator and the full stop that split() and
\* _split_long_paragraph put back are the characters they were cut at; the
\* separator put between an overlap and a paragraph is new text, position 0.
NewSeparator == <<[c |-> Newline, p |-> 0], [c |-> Newline, p |-> 0]>>

\* The first k with s[k], s[k+1] both newlines, 0 when there is none.
FindSeparator(s) ==
  IF \E k \in 1..(Len(s) - 1) : s[k].c = Newline /\ s[k + 1].c = Newline
  THEN CHOOSE k \in 1..(Len(s) - 1) :
         /\ s[k].c = Newline /\ s[k + 1].c = Newline
         /\ \A j \in 1..(k - 1) : ~(s[j].c = Newline /\ s[j + 1].c = Newline)
  ELSE 0

\* text.split("\n\n"): the paragraphs, alternating with the separators.
RECURSIVE SplitParagraphs(_)
SplitParagraphs(s) ==
  LET k == FindSeparator(s) IN
  IF k = 0 THEN <<s>>
  ELSE <<SubSeq(s, 1, k - 1), SubSeq(s, k, k + 1)>>
         \o SplitParagraphs(SubSeq(s, k + 2, Len(s)))

\* _get_overlap_text: the last overlap_size characters, cut after the first
\* full stop or else the first newline found past 30% of them.
_get_overlap_text(chunk, overlap_size) ==
  IF Len(chunk) <= overlap_size THEN chunk
  ELSE LET overlap_text == SubSeq(chunk, Len(chunk) - overlap_size + 1, Len(chunk))
           period == FindAny(overlap_text, {Stop})
           newline == FindAny(overlap_text, {Newline})
       IN IF period > 0 /\ 10 * (period - 1) > 3 * overlap_size
          THEN SubSeq(overlap_text, period + 1, Len(overlap_text))
          ELSE IF newline > 0 /\ 10 * (newline - 1) > 3 * overlap_size
          THEN SubSeq(overlap_text, newline + 1, Len(overlap_text))
          ELSE overlap_text

\* The loop of _split_long_paragraph over the sentences k, k+2, ... of
\* para.split("。"), given alternating with the full stops.
RECURSIVE SentenceLoop(_, _, _, _, _, _)
SentenceLoop(parts, k, done, current_chunk, size, overlap) ==
  IF k > Len(parts)
  THEN IF current_chunk # <<>> THEN Append(done, current_chunk) ELSE done
  ELSE LET stripped == Strip(parts[k])
           sentence == IF k < Len(parts) THEN stripped \o parts[k + 1]
                       ELSE stripped
       IN
    IF stripped = <<>>
    THEN SentenceLoop(parts, k + 2, done, current_chunk, size, overlap)
    ELSE IF Len(current_chunk \o sentence) <= size
    THEN SentenceLoop(parts, k + 2, done, current_chunk \o sentence, size,
                      overlap)
    ELSE LET kept == IF current_chunk # <<>> THEN Append(done, current_chunk)
                     ELSE done IN
         IF kept # <<>> /\ overlap > 0
         THEN SentenceLoop(parts, k + 2, kept,
                           _get_overlap_text(kept[Len(kept)], overlap)
                             \o sentence,
                           size, overlap)
         ELSE SentenceLoop(parts, k + 2, kept, sentence, size, overlap)

_split_long_paragraph(para, size, overlap) ==
  SentenceLoop(ReSplit(para, {Stop}), 1, <<>>, <<>>, size, overlap)

\* The loop of split over the paragraphs k, k+2, ...
RECURSIVE ParagraphLoop(_, _, _, _, _, _)
ParagraphLoop(parts, k, done, current_chunk, size, overlap) ==
  IF k > Len(parts)
  THEN IF current_chunk # <<>> THEN Append(done, Strip(current_chunk))
       ELSE done
  ELSE LET para == parts[k]
           kept == IF current_chunk # <<>>
                   THEN Append(done, Strip(current_chunk)) ELSE done
           test_chunk == IF current_chunk # <<>>
                         THEN current_chunk \o parts[k - 1] \o para ELSE para
       IN
    IF Len(para) > size
    THEN ParagraphLoop(parts, k + 2,
                       kept \o _split_long_paragraph(para, size, overlap),
                       <<>>, size, overlap)
    ELSE IF Len(test_chunk) <= size
    THEN ParagraphLoop(parts, k + 2, done, test_chunk, size, overlap)
    ELSE IF kept # <<>> /\ overlap > 0
    THEN ParagraphLoop(parts, k + 2, kept,
                       _get_overlap_text(kept[Len(kept)], overlap)
                         \o NewSeparator \o para,
                       size, overlap)
    ELSE ParagraphLoop(parts, k + 2, kept, para, size, overlap)

\* TextSplitter.split of a splitter constructed with (size, overlap)
split(s, size, overlap) ==
  IF s = <<>> THEN <<>>
  ELSE ParagraphLoop(SplitParagraphs(s), 1, <<>>, <<>>, size, overlap)

\* ------------------------------------------------------------ reassembly
\* Strings are compared by their characters, wherever these came from.
Same(s, t) == Glyphs(s) = Glyphs(t)
Prefix(s, n) == SubSeq(s, 1, n)
Suffix(s, n) == SubSeq(s, Len(s) - n + 1, Len(s))
From(s, n) == SubSeq(s, n + 1, Len(s))
StartsWith(s, t) == Len(t) <= Len(s) /\ Same(Prefix(s, Len(t)), t)
EndsWith(s, t) == Len(t) <= Len(s) /\ Same(Suffix(s, Len(t)), t)
Contains(s, t) ==
  \E k \in 0..(Len(s) - Len(t)) : Same(SubSeq(s, k + 1, k + Len(t)), t)

\* s.rfind(c) + 1: the last position of s that holds c, 0 when none does.
RFind(s, c) ==
  IF \E k \in DOMAIN s : s[k].c = c
  THEN CHOOSE k \in DOMAIN s :
         s[k].c = c /\ \A j \in (k + 1)..Len(s) : s[j].c # c
  ELSE 0

\* The largest number in a set of naturals, 0 for the empty set.
Largest(S) == IF S = {} THEN 0 ELSE CHOOSE n \in S : \A m \in S : m <= n

\* What _remove_overlap returns: the rest of the chunk, or None.
Found(rest) == [found |-> TRUE, rest |-> rest]
NotFound == [found |-> FALSE, rest |-> <<>>]

\* Strategy 5: the chunk is less than half as long as the previous one
\* and occurs in it.
IsRepeat(prev_chunk, curr_chunk) ==
  2 * Len(curr_chunk) < Len(prev_chunk) /\ Contains(prev_chunk, curr_chunk)

_remove_overlap(prev_chunk, curr_chunk, overlap) ==
  IF prev_chunk = <<>> \/ curr_chunk = <<>> THEN NotFound
  ELSE
    LET max_overlap == Min(Min(Len(prev_chunk), Len(curr_chunk)), overlap * 3)
        exact == Largest({n \in (Max(0, overlap - ExactSlack) + 1)..max_overlap :
                            Same(Suffix(prev_chunk, n), Prefix(curr_chunk, n))})
        period == RFind(prev_chunk, Stop)
        after_period == Strip(From(prev_chunk, period))
        newline == RFind(prev_chunk, Newline)
        after_newline == Strip(From(prev_chunk, newline))
        best == Largest({n \in (MinMatch + 1)..
                               Min(MaxSearch, Min(Len(curr_chunk), Len(prev_chunk))) :
                           EndsWith(prev_chunk, Prefix(curr_chunk, n))})
    IN
    IF exact > 0 THEN Found(From(curr_chunk, exact))
    ELSE IF /\ period - 1 >= Len(prev_chunk) - max_overlap
            /\ after_period # <<>>
            /\ \/ StartsWith(curr_chunk, after_period)
               \/ StartsWith(Visible(Prefix(curr_chunk,
                                            Min(Len(after_period), Len(curr_chunk)))),
                             Visible(after_period))
    THEN Found(From(curr_chunk, Min(Len(after_period), Len(curr_chunk))))
    ELSE IF /\ newline - 1 >= Len(prev_chunk) - max_overlap
            /\ after_newline # <<>>
            /\ StartsWith(curr_chunk, after_newline)
    THEN Found(From(curr_chunk, Len(after_newline)))
    ELSE IF best >= MinMatch THEN Found(From(curr_chunk, best))
    ELSE IF IsRepeat(prev_chunk, curr_chunk) THEN Found(<<>>)
    ELSE NotFound

\* The loop of merge over the chunks k, k+1, ...
RECURSIVE MergeLoop(_, _, _, _)
MergeLoop(parts, k, merged, overlap) ==
  IF k > Len(parts) THEN merged
  ELSE LET removed == _remove_overlap(parts[k - 1], parts[k], overlap) IN
       MergeLoop(parts, k + 1,
                 IF removed.found THEN merged \o removed.rest
                 ELSE merged \o NewSeparator \o parts[k],
                 overlap)

merge(parts, overlap) ==
  IF parts = <<>> THEN <<>> ELSE MergeLoop(parts, 2, parts[1], overlap)

outside_split == <<engine_vars, retry_vars, sched_vars, worker_vars,
                   snap_vars, page_vars, legacy_vars, config_vars,
                   sentence_vars, diff_vars, tail_vars>>

\* splitter.split(text)
Split ==
  /\ sp_pc = "ready"
  /\ sp_chunks' = split(sp_text, sp_size, sp_overlap)
  /\ sp_pc' = "done"
  /\ UNCHANGED <<sp_text, sp_size, sp_overlap, sp_merged>>
  /\ UNCHANGED outside_split

\* splitter.merge(chunks) with every chunk as split returned it
Merge ==
  /\ sp_pc = "done"
  /\ sp_merged' = merge(sp_chunks, sp_overlap)
  /\ sp_pc' = "merged"
  /\ UNCHANGED <<sp_text, sp_size, sp_overlap, sp_chunks>>
  /\ UNCHANGED outside_split

\* Any text, and any pair the constructor of TextSplitter accepts.
InitSplit ==
  /\ EngineIdle
  /\ RetryIdle
  /\ SchedIdle
  /\ WorkerIdle
  /\ SnapIdle
  /\ PageIdle
  /\ LegacyIdle
  /\ ConfigIdle
  /\ SentenceIdle
  /\ DiffIdle
  /\ TailIdle
  /\ sp_text \in TextsUpTo(MaxTextLen, SplitAlphabet)
  /\ sp_size \in 1..MaxSize
  /\ sp_overlap \in 0..(sp_size - 1)
  /\ sp_chunks = <<>>
  /\ sp_merged = <<>>
  /\ sp_pc = "ready"

NextSplit ==
  \/ Split
  \/ Merge

SpecSplit == InitSplit /\ [][NextSplit]_vars

\* ------------------------------------------------- the change predicate
\* re.sub(r' +', ' ', text): a blank that follows a blank goes.
RECURSIVE CollapseBlanks(_)
CollapseBlanks(s) ==
  IF Len(s) < 2 THEN s
  ELSE IF s[1].c = Space /\ s[2].c = Space THEN CollapseBlanks(Tail(s))
  ELSE <<s[1]>> \o CollapseBlanks(Tail(s))

\* The last position of the whitespace run starting at k that holds a
\* newline; s[k] is a newline.
LastNewlineOfRun(s, k) ==
  CHOOSE m \in k..Len(s) :
    /\ s[m].c = Newline
    /\ \A j \in k..m : s[j].c \in Whitespace
    /\ \A n \in (m + 1)..Len(s) :
         (\A j \in k..n : s[j].c \in Whitespace) => s[n].c # Newline

\* re.sub(r'\n\s*\n+', '\n', text): whitespace from one newline to the last
\* newline of the same run becomes one newline.
RECURSIVE CollapseNewlines(_, _)
CollapseNewlines(s, k) ==
  IF k > Len(s) THEN <<>>
  ELSE IF s[k].c = Newline
  THEN <<s[k]>> \o CollapseNewlines(s, LastNewlineOfRun(s, k) + 1)
  ELSE <<s[k]>> \o CollapseNewlines(s, k + 1)

normalize_text_for_comparison(s) == Strip(CollapseNewlines(CollapseBlanks(s), 1))

\* Whether compute_diff reports an insertion or a deletion that holds a
\* character other than whitespace. It does when the two texts differ in
\* such characters; when they differ in whitespace only, the answer is that
\* of the diff in use: diff_match_patch after its semantic cleanup, or the
\* replacement defined when the import fails, which reports both texts whole.
DiffOutcomes(original, corrected) ==
  IF ~Same(Visible(original), Visible(corrected)) THEN {TRUE} ELSE BOOLEAN

\* A variant that asks the diff without comparing the normalised texts.
MeaningfulChanges_Unnormalised(original, corrected, visible_edit) ==
  IF Same(original, corrected) THEN FALSE ELSE visible_edit

\* has_meaningful_changes, visible_edit being what the diff reported
MeaningfulChanges(original, corrected, visible_edit) ==
  IF Same(original, corrected) THEN FALSE
  ELSE IF Same(normalize_text_for_comparison(original),
               normalize_text_for_comparison(corrected)) THEN FALSE
  ELSE visible_edit

outside_diff == <<engine_vars, retry_vars, sched_vars, worker_vars,
                  snap_vars, page_vars, legacy_vars, config_vars,
                  sentence_vars, split_vars, tail_vars>>

\* has_meaningful_changes(original, corrected)
Compare ==
  /\ df_pc = "ready"
  /\ \E visible_edit \in DiffOutcomes(df_original, df_corrected) :
       df_result' = MeaningfulChanges(df_original, df_corrected, visible_edit)
  /\ df_pc' = "done"
  /\ UNCHANGED <<df_original, df_corrected>>
  /\ UNCHANGED outside_diff

InitDiff ==
  /\ EngineIdle
  /\ RetryIdle
  /\ SchedIdle
  /\ WorkerIdle
  /\ SnapIdle
  /\ PageIdle
  /\ LegacyIdle
  /\ ConfigIdle
  /\ SentenceIdle
  /\ SplitIdle
  /\ TailIdle
  /\ df_original \in TextsUpTo(MaxDiffLen, {Letter, Space, Newline})
  /\ df_corrected \in TextsUpTo(MaxDiffLen, {Letter, Space, Newline})
  /\ df_result = FALSE
  /\ df_pc = "ready"

NextDiff == Compare

SpecDiff == InitDiff /\ [][NextDiff]_vars

\* ------------------------------------------------- the worker, scheduled
\* The event loop resumes process_task_async whenever its await is over,
\* and every call of the engine returns or raises in the end (its loops
\* are bounded; each adapter call returns or raises): the worker's next
\* step is taken eventually.  The upload itself may never come.
WorkerStep ==
  \/ WorkerStart
  \/ ChapterReturns
  \/ ChapterRaises
  \/ EngineReturns
  \/ EngineRaises
  \/ WorkerComplete
  \/ WorkerExcept

SpecWorkerFair == InitWorker /\ [][NextWorker]_vars /\ WF_vars(WorkerStep)

\* ---------------------------------------------------- the prompt at runtime
\* The providers a request may name; the service's provider is the key's.
PromptProviders == {"openai", "ollama"}

\* prompt_manager.get_prompt(provider) (prompt_manager.py 113-128).
get_prompt(prov) ==
  IF prov = "ollama" THEN pm_ollama_prompt ELSE pm_prompt

outside_prompt == <<engine_vars, retry_vars, sched_vars, worker_vars,
                    snap_vars, page_vars, legacy_vars, config_vars,
                    sentence_vars, split_vars, diff_vars, run_vars>>

\* POST /api/prompt (main.py 471-556): set_prompt(prompt) without a
\* provider sets the cloud prompt; with persist the text is written to
\* prompts/custom_prompt.txt, a failure of which is swallowed.  _services
\* is not touched.
UpdatePrompt ==
  /\ p_posts < MaxPosts
  /\ \E n \in 1..MaxPosts, persist \in BOOLEAN, saved \in BOOLEAN :
       /\ pm_prompt' = Prompt("posted", n)
       /\ pm_saved' = IF persist /\ saved THEN Prompt("posted", n) ELSE pm_saved
  /\ p_posts' = p_posts + 1
  /\ UNCHANGED <<pm_ollama_prompt, p_services, p_call>>
  /\ UNCHANGED outside_prompt

\* A correction request or a task's unit: get_service (main.py 96-109)
\* returns the cached service or constructs one, whose __init__ takes the
\* prompt of that time (correction_service.py 66); the adapter is then
\* called with the service's prompt (lines 276, 366, 425).
AdapterCall ==
  /\ \E prov \in PromptProviders :
       LET cached == prov \in DOMAIN p_services
           prompt == IF cached THEN p_services[prov] ELSE get_prompt(prov)
       IN /\ p_services' = IF cached THEN p_services
                           ELSE (prov :> prompt) @@ p_services
          /\ p_call' = [made |-> TRUE, provider |-> prov, cached |-> cached,
                        prompt |-> prompt, stored |-> pm_prompt,
                        posts |-> p_posts]
  /\ UNCHANGED <<pm_prompt, pm_ollama_prompt, pm_saved, p_posts>>
  /\ UNCHANGED outside_prompt

\* A successful POST /api/config: _services.clear() (main.py 670-671).
ClearServices ==
  /\ p_services # <<>>
  /\ p_services' = <<>>
  /\ UNCHANGED <<pm_prompt, pm_ollama_prompt, pm_saved, p_posts, p_call>>
  /\ UNCHANGED outside_prompt

\* The prompt manager after import: the cloud prompt is the one loaded at
\* startup, the Ollama prompt that of its own file or the cloud prompt.
InitPrompt ==
  /\ EngineIdle
  /\ RetryIdle
  /\ SchedIdle
  /\ WorkerIdle
  /\ SnapIdle
  /\ PageIdle
  /\ LegacyIdle
  /\ ConfigIdle
  /\ SentenceIdle
  /\ SplitIdle
  /\ DiffIdle
  /\ RunIdle
  /\ pm_prompt = Prompt("startup", 0)
  /\ pm_ollama_prompt \in {Prompt("startup", 0), Prompt("ollama_file", 0)}
  /\ pm_saved = Prompt("startup", 0)
  /\ p_services = <<>>
  /\ p_posts = 0
  /\ p_call = NoAdapterCall

NextPrompt == UpdatePrompt \/ AdapterCall \/ ClearServices

SpecPrompt == InitPrompt /\ [][NextPrompt]_vars

\* --------------------------------------- two tasks through one service
\* Two uploads with the same provider:model key: get_service hands both
\* workers the same CorrectionService (main.py 93-109).  The service's
\* fields (adapter, splitter, prompt) are set by __init__ only; what a
\* correct_text call counts and collects (consecutive_failures,
\* failed_chunks, the loop index; correction_service.py 405-416) are
\* locals of that call, and progress and status are kept by the
\* TaskManager under the task id.
Outcomes == {"ok", "ConnectionError", "Exception"}

\* One frame for the service: the locals kept on the shared object.
FrameOf_Service(t) == "service"

\* The frame that holds the locals of task t's correct_text call.
FrameOf(t) == t

NewLocals == [i |-> 0, consecutive_failures |-> 0, failed_chunks |-> <<>>,
              stopped |-> FALSE]
NewRunTask == [status |-> "pending", current |-> 0, total |-> 0]

\* One iteration of the loop over the chunks (lines 416-510) on the locals
\* loc, the adapter call having ended with outcome: a success resets the
\* counter; a ModelConnectionError marks the chunk and all later ones
\* failed and leaves the loop; another error counts, and at three in a row
\* the later chunks are marked failed and the loop is left.
RECURSIVE Indexes(_, _)
Indexes(lo, hi) == IF lo > hi THEN <<>> ELSE <<lo>> \o Indexes(lo + 1, hi)

LoopStep(loc, total, outcome) ==
  LET k == loc.i + 1
  IN IF outcome = "ok"
     THEN [loc EXCEPT !.i = k, !.consecutive_failures = 0]
     ELSE IF outcome = "ConnectionError"
     THEN [loc EXCEPT !.i = k, !.stopped = TRUE,
                      !.failed_chunks = @ \o Indexes(k, total)]
     ELSE IF loc.consecutive_failures + 1 >= max_consecutive_failures
     THEN [loc EXCEPT !.i = k, !.stopped = TRUE,
                      !.consecutive_failures = @ + 1,
                      !.failed_chunks = @ \o Indexes(k, total)]
     ELSE [loc EXCEPT !.i = k, !.consecutive_failures = @ + 1,
                      !.failed_chunks = Append(@, k)]

LoopOver(loc, total) == loc.stopped \/ loc.i = total

\* The task's entry in the TaskManager after the iteration: the progress
\* callback of a success (update_task_progress), and when the loop is over
\* fail_task for the RuntimeError of a run whose chunks all failed,
\* complete_task otherwise.
TaskStep(task, loc1, total, outcome) ==
  LET t1 == IF outcome = "ok"
            THEN [status |-> IF task.status = "pending" THEN "processing"
                             ELSE task.status,
                  current |-> loc1.i, total |-> total]
            ELSE task
  IN IF ~LoopOver(loc1, total) THEN t1
     ELSE IF Len(loc1.failed_chunks) = total
     THEN [t1 EXCEPT !.status = "failed"]
     ELSE [t1 EXCEPT !.status = "completed", !.current = t1.total]

outside_run == <<engine_vars, retry_vars, sched_vars, worker_vars,
                 snap_vars, page_vars, legacy_vars, config_vars,
                 sentence_vars, split_vars, diff_vars, prompt_vars>>

\* The adapter call of task t's next chunk ends; the event loop resumes
\* t's correct_text, which runs to its next await or to its end.
RunUnit(t) ==
  /\ run_pc[t] = "loop"
  /\ \E outcome \in Outcomes :
       LET loc1 == LoopStep(run_locals[FrameOf(t)], run_total[t], outcome)
       IN /\ run_locals' = [run_locals EXCEPT ![FrameOf(t)] = loc1]
          /\ run_outcomes' = [run_outcomes EXCEPT ![t] = Append(@, outcome)]
          /\ run_tasks' = [run_tasks EXCEPT ![t] =
                            TaskStep(@, loc1, run_total[t], outcome)]
          /\ run_pc' = [run_pc EXCEPT ![t] =
                         IF LoopOver(loc1, run_total[t]) THEN "done" ELSE "loop"]
  /\ UNCHANGED run_total
  /\ UNCHANGED outside_run

\* Two tasks created and started, each before its first adapter call.
InitRun ==
  /\ EngineIdle
  /\ RetryIdle
  /\ SchedIdle
  /\ WorkerIdle
  /\ SnapIdle
  /\ PageIdle
  /\ LegacyIdle
  /\ ConfigIdle
  /\ SentenceIdle
  /\ SplitIdle
  /\ DiffIdle
  /\ PromptIdle
  /\ run_total \in [Tasks -> 1..MaxRunUnits]
  /\ run_outcomes = [t \in Tasks |-> <<>>]
  /\ run_locals = [f \in {FrameOf(t) : t \in Tasks} |-> NewLocals]
  /\ run_tasks = [t \in Tasks |-> NewRunTask]
  /\ run_pc = [t \in Tasks |-> "loop"]

NextRun == \E t \in Tasks : RunUnit(t)

SpecRun == InitRun /\ [][NextRun]_vars

\* =============================================================== claims
\* What the adapter's call log and the engine's state say about one run.

Done == pc \in {"returned", "raised"}
N == Len(chunks)

\* Positions in call_log of the calls made for unit k (0: the whole text).
CallsFor(k) == {n \in 1..Len(call_log) : call_log[n].unit = k}
Called(k) == CallsFor(k) # {}
Raises(k, kind) == \E n \in CallsFor(k) : call_log[n].kind = kind
Succeeded(k) == Raises(k, "ok")
FailedCall(k) == \E n \in CallsFor(k) : call_log[n].kind # "ok"

DirectTried == Called(0)
DirectSucceeded == Succeeded(0)

\* The invocation runs (or ran) the chunk loop, resp. the sentence loop.
ChunkedMode == /\ provider # "ollama"
               /\ pc \in {"chunk_loop", "returned", "raised"}
               /\ ~DirectSucceeded
               /\ N > 0
SentenceMode == /\ provider = "ollama"
                /\ pc \in {"sentence_loop", "returned", "raised"}
                /\ N > 0

\* The units handed to the reassembly (merge / join) of a returned result.
OutputUnits == result.corrected[2]
FailureIndexes == {failed_chunks[k].chunk_index : k \in 1..Len(failed_chunks)}

\* ---------------------------------------------------------------- C1
\* C1: in chunked mode, once the call for unit i has raised ConnectionError
\* the adapter is called for no unit j > i: that call is the last call of
\* the invocation, and the loop has stopped.
C1_FatalFastStop ==
  ChunkedMode =>
    \A k \in 1..N :
      Raises(k, "ConnectionError") =>
        /\ \A n \in 1..Len(call_log) : call_log[n].unit <= k
        /\ \A j \in (k + 1)..N : ~Called(j)
        /\ Done

C1_Witness ==
  /\ ChunkedMode /\ Done /\ N >= 4
  /\ Succeeded(1) /\ Raises(2, "ConnectionError")
  /\ \A j \in 3..N : ~Called(j)

\* ---------------------------------------------------------------- C2
\* Units k, k+1 and k+2 of the chunk loop all raised ServiceUnavailableError.
ThreeUnavailable(k) ==
  /\ ChunkedMode /\ k + 2 <= N
  /\ \A j \in k..(k + 2) : Raises(j, "ServiceUnavailableError")

\* C2 as stated: after three ServiceUnavailable units k..k+2 no unit after
\* k+2 is called, the engine's return value reports failed_chunks >= N-(k-1)
\* and every chunk j >= k stands in the output as its original.
C2_AsStated ==
  \A k \in 1..MaxUnits :
    ThreeUnavailable(k) =>
      /\ \A j \in (k + 3)..N : ~Called(j)
      /\ pc = "returned"
      /\ result.failed_chunks >= N - (k - 1)
      /\ \A j \in k..N : OutputUnits[j] = chunks[j]

\* C2 amended: the same, with the return only for k >= 2; for k = 1 every
\* chunk has failed and the engine raises its every-chunk-failed error after
\* filling its lists the same way.
C2_CircuitBreaker ==
  \A k \in 1..MaxUnits :
    ThreeUnavailable(k) =>
      /\ \A j \in (k + 3)..N : ~Called(j)
      /\ Done
      /\ Len(failed_chunks) >= N - (k - 1)
      /\ Len(corrected_chunks) = N
      /\ \A j \in k..N : corrected_chunks[j] = chunks[j]
      /\ k >= 2 => /\ pc = "returned"
                   /\ result.failed_chunks >= N - (k - 1)
                   /\ Len(OutputUnits) = N
                   /\ \A j \in k..N : OutputUnits[j] = chunks[j]
      /\ k = 1 => /\ pc = "raised"
                  /\ error = ChunkedError(failed_chunks)
                  /\ Len(failed_chunks) = N

C2_Witness ==
  /\ ThreeUnavailable(2) /\ N >= 5 /\ Succeeded(1)
  /\ pc = "returned" /\ result.failed_chunks = N - 1

\* ---------------------------------------------------------------- C3
RetryDone == r_pc \in {"returned", "raised"}
K == Len(fail_kinds)

\* C3: for an adapter that fails K times and then succeeds, a finished
\* correct_text_with_retry has called correct_text exactly
\* min(K+1, max_retries) times, has returned the result when K < max_retries,
\* and has slept only between attempts: never after the final one.
C3_RetryCount ==
  /\ RetryDone =>
       /\ correct_calls = Min(K + 1, max_retries)
       /\ K < max_retries => (r_pc = "returned" /\ r_out = "ok")
       /\ Len(sleeps) = IF correct_calls = 0 THEN 0 ELSE correct_calls - 1
  /\ r_pc = "attempt" => Len(sleeps) = correct_calls

C3_Witness ==
  /\ r_pc = "raised" /\ K > max_retries /\ max_retries >= 2
  /\ correct_calls = max_retries /\ Len(sleeps) = max_retries - 1

\* ---------------------------------------------------------------- C4
\* C4 as stated: once any adapter call of the run (the whole-text call of
\* direct mode included) has raised ConnectionError, no further adapter call
\* is made: the failing call is the last entry of the call log.
C4_ConnectionErrorEndsAllCalls ==
  \A n \in 1..Len(call_log) :
    call_log[n].kind = "ConnectionError" => n = Len(call_log)

\* ---------------------------------------------------------------- C5
\* Units 1..k-1 of the chunk loop succeeded and unit k raised ConnectionError.
FatalAt(k) ==
  /\ ChunkedMode /\ k <= N
  /\ \A j \in 1..(k - 1) : Succeeded(j)
  /\ Raises(k, "ConnectionError")

\* C5: when units 1..k-1 succeed and unit k (k >= 2) raises ConnectionError,
\* the engine returns with failed_chunks = N-k+1, failure_details listing the
\* indexes k..N once each in ascending order, units 1..k-1 as the adapter's
\* outputs and units k..N as their originals.
C5_FatalPartialResult ==
  \A k \in 2..MaxUnits :
    FatalAt(k) =>
      /\ pc = "returned"
      /\ result.total_chunks = N
      /\ result.failed_chunks = N - k + 1
      /\ result.has_failures
      /\ Len(result.failure_details) = N - k + 1
      /\ \A m \in 1..(N - k + 1) : result.failure_details[m].chunk_index = k + m - 1
      /\ Len(OutputUnits) = N
      /\ \A j \in 1..(k - 1) : OutputUnits[j] = Fixed(j)
      /\ \A j \in k..N : OutputUnits[j] = chunks[j]

C5_Witness ==
  /\ FatalAt(3) /\ N = MaxUnits /\ pc = "returned"
  /\ result.failed_chunks = MaxUnits - 2

\* ---------------------------------------------------------------- C6
\* The calls of the current loop (the whole-text call left out), in order.
LoopCalls == SelectSeq(call_log, LAMBDA c : c.unit >= 1)
IsFailure(c) == c.kind \in {"ServiceUnavailableError", "Exception"}

\* The number of ServiceUnavailable / generic failures at the end of s.
RECURSIVE TrailingFailures(_)
TrailingFailures(s) ==
  IF s = <<>> \/ ~IsFailure(s[Len(s)]) THEN 0
  ELSE 1 + TrailingFailures(SubSeq(s, 1, Len(s) - 1))

\* The units of the loop whose call raised / returned / raised
\* ConnectionError, from the call log.
FailedUnits == {call_log[n].unit : n \in {m \in 1..Len(call_log) :
                  call_log[m].unit >= 1 /\ call_log[m].kind # "ok"}}
OkUnits == {call_log[n].unit : n \in {m \in 1..Len(call_log) :
              call_log[m].unit >= 1 /\ call_log[m].kind = "ok"}}
ConnectionUnits == {call_log[n].unit : n \in {m \in 1..Len(call_log) :
                      call_log[m].unit >= 1 /\ call_log[m].kind = "ConnectionError"}}

\* The units the loop stopped before reaching: an earlier unit raised
\* ConnectionError, or three earlier units failed (ServiceUnavailable or
\* generic) with no successful unit between the first and the third.
StoppedUnits ==
  LET failed == FailedUnits
      ok == OkUnits
      conn == ConnectionUnits
  IN {k \in 1..N :
        \/ \E j \in conn : j < k
        \/ \E a \in failed, c \in failed :
             /\ a < c /\ c < k
             /\ \E b \in failed : a < b /\ b < c
             /\ \A g \in ok : g < a \/ g > c}

\* Unit k was attempted: sent to the adapter, or, for a blank line of the
\* sentence loop, carried through by the loop rather than filled in as a
\* failure after the loop stopped.
Attempted(k) ==
  IF IsBlank(chunks[k])
  THEN k <= Len(corrected_chunks) /\ k \notin FailureIndexes
  ELSE Called(k)

\* C6: in the chunk and the sentence loop consecutive_failures counts the
\* ServiceUnavailable and generic failures since the last successful unit
\* (each advances it, a success resets it, until a ConnectionError ends the
\* loop), it never exceeds 3, and when the loop is over every unit was
\* attempted unless a ConnectionError or three failed units with no success
\* between them precede it.
C6_ConsecutiveFailures ==
  (ChunkedMode \/ SentenceMode) =>
    /\ (\A k \in 1..N : ~Raises(k, "ConnectionError")) =>
         consecutive_failures = TrailingFailures(LoopCalls)
    /\ consecutive_failures <= max_consecutive_failures
    /\ (consecutive_failures = max_consecutive_failures) => Done
    /\ Done => LET stopped == StoppedUnits
               IN \A k \in 1..N : Attempted(k) <=> k \notin stopped
    /\ ~Done => \A k \in 1..i : Attempted(k)

C6_Witness ==
  /\ SentenceMode /\ Done /\ N = MaxUnits
  /\ Raises(1, "Exception") /\ Succeeded(2)
  /\ Raises(3, "ServiceUnavailableError") /\ IsBlank(chunks[4])
  /\ Raises(5, "Exception") /\ Attempted(6)

\* ---------------------------------------------------------------- C7
\* Every unit that is, or would be, sent to the adapter (every non-blank
\* unit of the sentence loop, every chunk of the chunk loop) failed or was
\* skipped after the loop stopped; at least one such unit exists.
Sendable(k) == ChunkedMode \/ ~IsBlank(chunks[k])
EverySentUnitFailed ==
  /\ ChunkedMode \/ SentenceMode
  /\ Done
  /\ \E k \in 1..N : Sendable(k)
  /\ \A k \in 1..N : Sendable(k) => ~Succeeded(k)

\* C7 as stated: when every sent unit fails the engine raises instead of
\* returning, and the raised message lists at most the first five unit
\* errors, in both loops and for every text.
C7_AllFailedRaises ==
  /\ EverySentUnitFailed => pc = "raised"
  /\ pc = "raised" => Len(error.listed) <= MessageLimit

\* ---------------------------------------------------------------- C8
\* The units that failed (their call raised) or were skipped (the loop had
\* stopped before them), from the call log alone.
FailedOrSkipped == FailedUnits \cup StoppedUnits
SomeUnitSucceeded == \E k \in 0..N : Succeeded(k)

\* C8: when at least one unit succeeds, a finished engine has returned (no
\* per-unit error came out of it); failure_details holds every failed or
\* skipped unit index exactly once; failed_chunks is its length;
\* has_failures is failed_chunks > 0; and each failed or skipped unit's
\* original text stands at its place in the output.
C8_PerUnitErrorsStayInside ==
  (Done /\ SomeUnitSucceeded) =>
    /\ pc = "returned"
    /\ error = NoError
    /\ result.failed_chunks = Len(result.failure_details)
    /\ result.has_failures <=> result.failed_chunks > 0
    /\ DirectSucceeded => result.failure_details = None
    /\ ~DirectSucceeded =>
         LET failed == FailedOrSkipped
         IN /\ {result.failure_details[m].chunk_index :
                  m \in 1..Len(result.failure_details)} = failed
            /\ Len(result.failure_details) = Cardinality(failed)
            /\ Len(OutputUnits) = N
            /\ \A k \in failed : OutputUnits[k] = chunks[k]

C8_Witness ==
  /\ Done /\ ChunkedMode /\ N = MaxUnits
  /\ Raises(1, "Exception") /\ Succeeded(2) /\ Raises(3, "ServiceUnavailableError")
  /\ Raises(4, "Exception") /\ Raises(5, "Exception") /\ ~Called(6)
  /\ result.failed_chunks = 5

\* ---------------------------------------------------------------- C9
ReportKeys == {"total_chunks", "chunks_processed", "failed_chunks",
               "has_failures", "failure_details"}

\* The non-empty units whose adapter call returned (the whole text in
\* direct mode).
ReturnedUnits ==
  IF DirectSucceeded THEN {0}
  ELSE {k \in 1..N : ~IsBlank(chunks[k]) /\ Succeeded(k)}

\* C9 as stated: every returned value carries the five report keys,
\* chunks_processed is the number of non-empty units whose adapter call
\* returned, and chunks_processed + failed_chunks <= total_chunks.
C9_ReturnReport ==
  pc = "returned" =>
    /\ ReportKeys \subseteq DOMAIN result
    /\ result.chunks_processed = Cardinality(ReturnedUnits)
    /\ result.chunks_processed + result.failed_chunks <= result.total_chunks

\* --------------------------------------------------------------- C10
\* What a chunked pass over the text yields, from the outcomes of its
\* calls alone (call n of the pass is for chunk n).
PassUnits == text.units
PassN == Len(PassUnits)
PassCalls == LoopCalls
PassOk(k) == k <= Len(PassCalls) /\ PassCalls[k].kind = "ok"
SkipNote(kind) ==
  IF kind = "ConnectionError" THEN "skipped: connection error"
  ELSE IF kind = "ServiceUnavailableError" THEN "skipped: service unavailable"
  ELSE "skipped: consecutive failures"
PassNote(k) ==
  IF k <= Len(PassCalls) THEN PassCalls[k].kind
  ELSE SkipNote(PassCalls[Len(PassCalls)].kind)
PassCorrected == [k \in 1..PassN |-> IF PassOk(k) THEN Fixed(k) ELSE PassUnits[k]]
PassFailedIndexes == SelectSeq([k \in 1..PassN |-> k], LAMBDA k : ~PassOk(k))
PassFailures ==
  [m \in 1..Len(PassFailedIndexes) |->
     Failure(PassFailedIndexes[m], PassNote(PassFailedIndexes[m]))]
PassProgress ==
  SelectSeq([k \in 1..Len(PassCalls) |-> <<k, PassN>>], LAMBDA p : PassOk(p[1]))

DirectFailed == DirectTried /\ ~DirectSucceeded

Strategy ==
  IF provider = "ollama" THEN "sentence"
  ELSE IF provider \in fast_providers /\ text.length <= max_direct_length
  THEN "direct"
  ELSE "chunked"

\* What the invocation hands back names the loop that produced it.
SentenceShaped ==
  /\ pc = "returned" => result = EmptyReturn \/ result.corrected[1] = "join"
  /\ pc = "raised" => error.head = "all sentences failed"
ChunkShaped ==
  /\ pc = "returned" => result = EmptyReturn \/ result.corrected[1] = "merge"
  /\ pc = "raised" => error.head = "all chunks failed"

\* C11: once the invocation has chosen, it is in the sentence loop iff the
\* provider is ollama; otherwise the whole-text call is tried (first, and
\* once) iff the provider is openai or deepseek and len(text) <=
\* fast_provider_max_chars; otherwise it is in the chunked flow without a
\* whole-text call; a text longer than fast_provider_max_chars never gets
\* the whole-text call.
C11_StrategySelection ==
  pc # "start" =>
    /\ Strategy = "sentence" <=>
          (pc \in {"sentence_loop", "returned", "raised"} /\ SentenceShaped
           /\ ~DirectTried /\ provider = "ollama")
    /\ Strategy = "direct" <=>
          (pc = "direct" \/ (DirectTried /\ call_log[1].unit = 0))
    /\ Strategy = "direct" => Cardinality(CallsFor(0)) <= 1
    /\ (Strategy = "direct" /\ pc # "direct" /\ ~DirectSucceeded) =>
          (pc \in {"chunk_loop", "returned", "raised"} /\ ChunkShaped)
    /\ Strategy = "chunked" <=>
          (pc \in {"chunk_loop", "returned", "raised"} /\ ChunkShaped
           /\ ~DirectTried /\ provider # "ollama")
    /\ text.length > max_direct_length => ~DirectTried /\ pc # "direct"

C11_Witness ==
  /\ provider = "deepseek" /\ text.length = max_direct_length + 1
  /\ pc = "returned" /\ N = 2 /\ Succeeded(1) /\ Succeeded(2)

\* --------------------------------------------------------------- C12
\* C12 as stated: in the chunk loop with a callback, progress holds one
\* report (k, N) for every unit k whose call has returned or raised, in
\* unit order.
C12_ProgressAfterEveryChunk ==
  (ChunkedMode /\ has_callback) =>
    progress_log = [k \in 1..Len(LoopCalls) |-> <<k, N>>]

\* --------------------------------------------------------------- C13
TaskEvents(t) == SelectSeq(call_events, LAMBDA e : e.task = t)

\* C13: a task has at most one adapter call in flight; while one is in
\* flight (its request or a retry delay pending) the task is inside that
\* call; and its calls begin and end strictly in turn, in unit order:
\* begin 1, end 1, begin 2, end 2, ...
C13_SequentialPerTask ==
  \A t \in Tasks :
    /\ Cardinality({c \in in_flight : c[1] = t}) <= 1
    /\ t_pc[t] \in {"calling", "sleeping"} <=> <<t, t_unit[t]>> \in in_flight
    /\ LET ev == TaskEvents(t)
       IN \A j \in 1..Len(ev) :
            ev[j] = IF j % 2 = 1 THEN Event(t, (j + 1) \div 2, "begin")
                    ELSE Event(t, j \div 2, "end")

\* Calls of two tasks overlap: b ran its first call and began its second
\* while a's first call is still waiting out a retry delay.
C13_Witness ==
  /\ t_pc["a"] = "sleeping" /\ t_unit["a"] = 1
  /\ t_pc["b"] = "calling" /\ t_unit["b"] = 2
  /\ in_flight = {<<"a", 1>>, <<"b", 2>>}
  /\ call_events[1] = Event("a", 1, "begin")

\* --------------------------------------------------------------- C14
\* C14 as stated: the task's status never changes once it is completed or
\* failed: no value follows a terminal one in the sequence of values the
\* status has taken.
C14_TerminalStatus ==
  \A j \in 1..Len(status_log) :
    status_log[j] \in {"completed", "failed"} => j = Len(status_log)

\* --------------------------------------------------------------- C15
\* An engine run of the task returned with some unit failed and some unit
\* succeeded, no run raised and no store write raised.
IsResult(r) == "original" \in DOMAIN r
PartialRun(r) ==
  /\ IsResult(r)
  /\ Get(r, "has_failures", FALSE)
  /\ r.failed_chunks < r.total_chunks
PartiallyFailed ==
  /\ w_pc = "done"
  /\ w_error = <<>>
  /\ \E k \in 1..Len(engine_log) : PartialRun(engine_log[k])

\* The record v shows the failures of the task's runs.
ShowsFailures(v) ==
  /\ "has_failures" \in DOMAIN v
  /\ v.has_failures = TRUE
  /\ "failure_details" \in DOMAIN v
  /\ v.failure_details # None

\* C15 as stated: a partially failed task ends completed, and what clients
\* read back for it (GET /api/tasks/{id}, GET /api/results/{id}) carries
\* has_failures = true and the failure_details.
C15_PartialFailureReadable ==
  PartiallyFailed =>
    /\ tasks[w_id].status = "completed"
    /\ ShowsFailures(tasks[w_id]) \/ ShowsFailures(get_result(w_id))

\* The half of C15 that holds: the task ends completed, with its Result.
C15_PartialEndsCompleted ==
  PartiallyFailed =>
    /\ tasks[w_id].status = "completed"
    /\ tasks[w_id].error = None
    /\ get_result(w_id) # None

\* --------------------------------------------------------------- C16
\* The engine run of the task's worker raised the every-unit-failed error.
IsEngineError(r) == "head" \in DOMAIN r
EngineRaised ==
  /\ engine_log # <<>>
  /\ IsEngineError(engine_log[Len(engine_log)])

\* C16: when the engine raises its every-unit-failed error inside the
\* task's worker, the task ends failed, the error field of the task is the
\* message of the engine's error, and no result row is written under the
\* task id (neither before the worker has handled the error nor after).
C16_EngineErrorFailsTask ==
  EngineRaised =>
    /\ w_pc \in {"excepted", "done"}
    /\ w_id \notin DOMAIN store_results
    /\ RowsOf(store_chapters, w_id) = <<>>
    /\ w_pc = "done" =>
         /\ tasks[w_id].status = "failed"
         /\ tasks[w_id].error = Message(engine_log[Len(engine_log)])
         /\ tasks[w_id].completed_at = TRUE
         /\ status_log[Len(status_log)] = "failed"

\* A chapter-mode task whose second chapter's run raised after the first
\* chapter was corrected, handled by the worker.
C16_Witness ==
  /\ w_pc = "done"
  /\ EngineRaised
  /\ Len(engine_log) = 2
  /\ tasks[w_id].use_chapters
  /\ tasks[w_id].status = "failed"
  /\ tasks[w_id].error = Message(ChunkedError(<<Failure(1, "Exception"),
                                                Failure(2, "Exception")>>))

\* --------------------------------------------------------------- C17
\* Every result row is stored under its own result_id; a row with source
\* task carries the id of an existing task as result_id and task_id, a
\* manual-input row carries no task_id and an id no task has.
C17_ResultIds ==
  \A rid \in DOMAIN store_results :
    LET row == store_results[rid]
    IN /\ row.result_id = rid
       /\ row.source \in {"task", "manual_input"}
       /\ row.source = "task" =>
            /\ row.task_id = rid
            /\ rid \in DOMAIN tasks
            /\ rid = w_id
       /\ row.source = "manual_input" =>
            /\ row.task_id = None
            /\ rid \notin DOMAIN tasks

\* Once the worker is over, the result of a completed task is read back
\* under the task id, as the task's result, unless a client deleted it.
C17_CompletedFetchable ==
  (w_pc = "done" /\ tasks[w_id].status = "completed" /\ w_id \notin deleted) =>
    /\ get_result(w_id) # None
    /\ get_result(w_id).source = "task"
    /\ get_result(w_id).task_id = w_id

\* No step of the system changes a result row that exists before and
\* after it: a manual save only adds a row.
C17_NoOverwrite ==
  \A rid \in DOMAIN store_results \cap DOMAIN store_results' :
    store_results'[rid] = store_results[rid]

\* C17: every result with source task has the id of the task that produced
\* it, every manual-input result has a fresh id and no task_id; so the
\* result of a completed task is fetched under the task id, and saving a
\* manual result never overwrites an existing result.
C17_ResultIdentity ==
  /\ [](C17_ResultIds /\ C17_CompletedFetchable)
  /\ [][C17_NoOverwrite]_vars

\* A chapter-mode task completed after a manual save: two rows under two
\* ids, the task's one under the task id and read back under it.
C17_Witness ==
  /\ w_pc = "done"
  /\ tasks[w_id].status = "completed"
  /\ tasks[w_id].use_chapters
  /\ w_id = Id(2)
  /\ DOMAIN store_results = {Id(1), Id(2)}
  /\ store_results[Id(1)].source = "manual_input"
  /\ get_result(Id(2)).source = "task"

\* --------------------------------------------------------------- C18
\* C18 as stated: deleting a result removes its chapter rows with it, so
\* in every state of the store each chapter row references an existing
\* result row.
C18_ChaptersHaveResult ==
  \A k \in 1..Len(store_chapters) :
    store_chapters[k].result_id \in DOMAIN store_results

\* The half of C18 that holds: on a build whose connections enforce
\* foreign keys by default, no chapter row outlives its result row.
C18_CascadeWhenEnforced ==
  fk_default => C18_ChaptersHaveResult

\* A chapter-mode result with its chapter rows was deleted.
C18_Deleted ==
  /\ w_pc = "done"
  /\ w_id \in deleted
  /\ tasks[w_id].use_chapters
  /\ tasks[w_id].status = "completed"

\* --------------------------------------------------------------- C19
\* The chapter_index values of the chapter rows of result rid, in row
\* order.
IndexesOf(rid) ==
  LET rows == RowsOf(store_chapters, rid)
  IN [k \in 1..Len(rows) |-> rows[k].chapter_index]

\* A chapter-mode task wrote its result and its chapter rows.
ChapterResultWritten ==
  /\ w_pc = "done"
  /\ tasks[w_id].use_chapters
  /\ tasks[w_id].status = "completed"
  /\ w_id \in DOMAIN store_results

\* C19 as stated: for every text, the chapter_index values of the chapter
\* rows of a result written by a chapter-mode task are unique, 1-based and
\* contiguous: exactly 1..n for its n rows.
C19_IndexesContiguous ==
  ChapterResultWritten =>
    LET ix == IndexesOf(w_id)
    IN /\ \A j, k \in 1..Len(ix) : ix[j] = ix[k] => j = k
       /\ {ix[k] : k \in 1..Len(ix)} = 1..Len(ix)

\* The part of C19 that holds: the values are unique, at least 1 and
\* ascending in row order.
C19_IndexesAscending ==
  ChapterResultWritten =>
    LET ix == IndexesOf(w_id)
    IN /\ \A k \in 1..Len(ix) : ix[k] >= 1
       /\ \A j, k \in 1..Len(ix) : j < k => ix[j] < ix[k]

\* --------------------------------------------------------------- C20
\* complete_task returned: the worker is over and nothing raised.
CompleteTaskReturned == w_pc = "done" /\ w_error = <<>>
\* The empty string, as the join of no chapter.
NoText == Joined(<<>>, "original")

\* One chapter row per chapter, with the chapter's index, title and texts,
\* in ascending chapter index order.
OneRowPerChapter(rows, chapters) ==
  /\ Len(rows) = Len(chapters)
  /\ \A k \in 1..Len(rows) :
       /\ rows[k].chapter_index = chapters[k].chapter_index
       /\ rows[k].chapter_title = chapters[k].chapter_title
       /\ rows[k].original_text = chapters[k].original
       /\ rows[k].corrected_text = chapters[k].corrected
  /\ \A j, k \in 1..Len(rows) :
       j < k => rows[j].chapter_index < rows[k].chapter_index

\* Without chapters the row carries the full texts of the run and the
\* result has no chapter row.
FullTextRow(row, rows) ==
  /\ ~row.use_chapters
  /\ row.original_text = w_result.original
  /\ row.original_text = WholeText(lines)
  /\ row.corrected_text = w_result.corrected
  /\ rows = <<>>

\* C20 as stated: when complete_task is called with chapters, the result
\* row is written with empty original_text and corrected_text and one
\* chapter row per chapter, in chapter index order; without chapters the
\* row carries the full texts and no chapter row is written.
C20_ChapterRowHasNoText ==
  CompleteTaskReturned =>
    LET row == store_results[w_id]
        rows == RowsOf(store_chapters, w_id)
    IN IF corrected_chapters # <<>>
       THEN /\ row.use_chapters
            /\ row.original_text = NoText
            /\ row.corrected_text = NoText
            /\ OneRowPerChapter(rows, corrected_chapters)
       ELSE FullTextRow(row, rows)

\* What the code does instead: with chapters the result row is written
\* with the texts complete_task was handed (the worker's join of title and
\* text of every chapter), which get_result does not return; the rest of
\* C20 holds.
C20_ChapterRowKeepsJoinedText ==
  CompleteTaskReturned =>
    LET row == store_results[w_id]
        rows == RowsOf(store_chapters, w_id)
    IN IF corrected_chapters # <<>>
       THEN /\ row.use_chapters
            /\ row.original_text = Joined(corrected_chapters, "original")
            /\ row.corrected_text = Joined(corrected_chapters, "corrected")
            /\ row.original_text # NoText
            /\ "original" \notin DOMAIN get_result(w_id)
            /\ "corrected" \notin DOMAIN get_result(w_id)
            /\ OneRowPerChapter(rows, corrected_chapters)
       ELSE /\ FullTextRow(row, rows)
            /\ get_result(w_id).original = row.original_text
            /\ get_result(w_id).corrected = row.corrected_text

\* --------------------------------------------------------------- C21
\* The task dict shows the change the call tm_op makes.
ChangeApplied ==
  /\ w_id \in DOMAIN tasks
  /\ CASE tm_op.op = "create_task" ->
            /\ tasks[w_id].status = "pending"
            /\ tasks[w_id].progress = [current |-> 0, total |-> 0]
       [] tm_op.op = "update_task_progress" ->
            /\ tasks[w_id].progress = [current |-> tm_op.current,
                                       total |-> tm_op.total]
            /\ tasks[w_id].status # "pending"
            /\ (tm_op.index # 0 /\ tasks[w_id].use_chapters) =>
                 tasks[w_id].chapter_progress[tm_op.index].progress =
                   [current |-> tm_op.current, total |-> tm_op.total]
       [] tm_op.op = "update_chapter_status" ->
            tasks[w_id].use_chapters =>
              tasks[w_id].chapter_progress[tm_op.index].status = tm_op.status
       [] tm_op.op = "complete_task" ->
            /\ tasks[w_id].status = "completed"
            /\ tasks[w_id].completed_at = TRUE
            /\ tasks[w_id].progress.current = tasks[w_id].progress.total
       [] tm_op.op = "fail_task" ->
            /\ tasks[w_id].status = "failed"
            /\ tasks[w_id].completed_at = TRUE
            /\ tasks[w_id].error = tm_op.error

\* C21: task snapshots are best-effort.  When the upsert_task of a
\* create_task, update_task_progress, update_chapter_status, complete_task
\* or fail_task call fails, the failure does not reach the caller and the
\* change of the call to the task dict is made and stays.
C21_SnapshotBestEffort ==
  tm_op.op # "none" =>
    /\ tm_op.raised # <<"upsert_task failed">>
    /\ tm_op.op # "complete_task" => tm_op.raised = None
    /\ ChangeApplied

\* A fail_task whose snapshot failed after a progress update whose snapshot
\* was written: the task is failed in memory, the row still says
\* processing.
C21_Witness ==
  /\ tm_op.op = "fail_task"
  /\ ~tm_op.snapshot_ok
  /\ tm_op.raised = None
  /\ tasks[w_id].status = "failed"
  /\ w_id \in DOMAIN store_tasks
  /\ store_tasks[w_id].status = str_status("processing")

\* --------------------------------------------------------------- C22
\* The chapter_progress of the worker's task and the chapter index of the
\* k-th chapter the worker takes up.
ChapterProgress == tasks[w_id].chapter_progress
IndexOf(k) == w_chapters[k].chapter_index
ChapterMode == w_pc # "none" /\ tasks[w_id].use_chapters /\ w_chapters # <<>>
Terminal == tasks[w_id].status \in {"completed", "failed"}

\* C22 as stated: in a chapter-mode task a chapter is marked processing
\* before its engine invocation; after the invocation it is marked failed
\* when every unit of the chapter failed and completed otherwise; so once
\* the task is completed or failed, no chapter that was started is still
\* marked processing.
C22_ChapterStatus ==
  ChapterMode =>
    /\ w_pc = "chapter" => ChapterProgress[IndexOf(w_k)].status = "processing"
    /\ w_pc # "excepted" =>
         \A k \in 1..Len(engine_log) :
           ChapterProgress[IndexOf(k)].status =
             IF IsEngineError(engine_log[k]) THEN "failed" ELSE "completed"
    /\ Terminal =>
         \A index \in DOMAIN ChapterProgress :
           ChapterProgress[index].status # "processing"

\* The part of C22 that holds: a chapter is marked processing before its
\* invocation and completed when the invocation returns.
C22_ReturnedChaptersCompleted ==
  ChapterMode =>
    /\ w_pc = "chapter" => ChapterProgress[IndexOf(w_k)].status = "processing"
    /\ \A k \in 1..Len(engine_log) :
         ~IsEngineError(engine_log[k]) =>
           ChapterProgress[IndexOf(k)].status = "completed"

\* No chapter of any task is ever marked failed.
C22_NoChapterFailed ==
  ChapterMode =>
    \A index \in DOMAIN ChapterProgress : ChapterProgress[index].status # "failed"

\* --------------------------------------------------------------- C23
\* The keys of the items of a listing never go up.
KeysDescending(items) ==
  \A j, k \in 1..Len(items) : j < k => OrderKey(items[j]) >= OrderKey(items[k])
\* Every row of the table is in the listing exactly once.
EachOnce(items) ==
  /\ Len(items) = Len(res_table)
  /\ \A r \in 1..Len(res_table) :
       Cardinality({k \in 1..Len(items) : items[k] = res_table[r]}) = 1

StartedTwice == Len(start_log) = 2
FirstStart == start_log[1]
SecondStart == start_log[2]
SameRows(a, b) == a.results = b.results /\ a.chapters = b.chapters

Migratable(a) ==
  /\ a.json_before.shape \in {"mapping", "falsy"}
  /\ a.bak_before = NoFile
  /\ a.empty_before
\* The results of file that carry a result_id.
IdsIn(file) ==
  {Id(file.entries[k].id) : k \in {j \in 1..Len(file.entries) :
      file.entries[j].kind \in {"plain", "chapters", "dup_chapters"}}}

NotAMapping(file) ==
  file.shape \in {"unreadable", "invalid", "list", "scalar", "falsy"}

\* C25 as stated: when results.json cannot be parsed into a mapping from
\* result id to result object (unreadable, invalid JSON, or JSON of another
\* shape such as a list), the construction of the store completes without
\* raising and leaves a new database with an empty results table.
C25_UnparsableStartsEmpty ==
  \A k \in 1..Len(start_log) :
    NotAMapping(start_log[k].json_before) =>
      /\ ~start_log[k].raised
      /\ (start_log[k].empty_before => DOMAIN start_log[k].results = {})

\* The part of C25 that holds: an unreadable file, invalid JSON and an
\* empty value do not stop the start, and no start changes the rows then.
C25_ParseErrorsSwallowed ==
  \A k \in 1..Len(start_log) :
    /\ start_log[k].json_before.shape \in {"unreadable", "invalid", "falsy"} =>
         ~start_log[k].raised
    /\ (NotAMapping(start_log[k].json_before) /\ start_log[k].empty_before) =>
         DOMAIN start_log[k].results = {}

\* ------------------------------------------------------------------- C26
\* C26: in every reachable state the settings satisfy chunk_overlap <
\* chunk_size, whatever accepted POST /api/config updates came before.
C26_OverlapBelowSize == chunk_overlap < chunk_size

\* The consequence C26 draws: get_service never fails to build a splitter.
C26_SplitterConstructible == ~got.raised

\* ------------------------------------------------------------------- C27
\* A service built for its key at the present epoch from the present settings.
Current(svc, key) ==
  /\ svc.born = cfg_epoch
  /\ svc.chunk_size = chunk_size
  /\ svc.chunk_overlap = chunk_overlap
  /\ svc.model_name = IF key = "default:default" THEN default_model_name
                      ELSE "gpt-4"

ClearedOnUpdate ==
  (cfg_epoch' # cfg_epoch) => (services' = [k \in ServiceKeys |-> NoService])

ReturnedIsCurrent ==
  (got' # got /\ ~got'.raised) =>
     /\ got'.service.born = cfg_epoch'
     /\ got'.service.chunk_size = chunk_size'
     /\ got'.service.chunk_overlap = chunk_overlap'
     /\ got'.service.model_name =
          IF got'.key = "default:default" THEN default_model_name' ELSE "gpt-4"

C28_LinesPreserved == st_pc = "done" => Glyphs(st_out) = Glyphs(st_text)

\* Texts without whitespace other than the newlines between lines do come
\* back unchanged, however they are cut.
NoBlanks(s) ==
  /\ \A k \in DOMAIN s : s[k].c # Space
  /\ \A k \in 1..(Len(s) - 1) : ~(s[k].c = Newline /\ s[k + 1].c = Newline)
  /\ s # <<>> => s[1].c # Newline

C28_PlainTextPreserved ==
  (st_pc = "done" /\ NoBlanks(st_text)) => Glyphs(st_out) = Glyphs(st_text)

\* What is lost is whitespace only.
C28_VisiblePreserved == st_pc = "done" => Visible(st_out) = Visible(st_text)

\* ------------------------------------------------------------------- C29
\* A text of letters only: one sentence with no full stop, blank or newline.
OneSentence(s) == \A k \in DOMAIN s : s[k].c = Letter

\* C29: every chunk split returns is at most chunk_size characters long,
\* chunks that begin with an overlap included, and a single sentence with
\* no full stop that is longer than chunk_size comes back cut into pieces
\* of chunk_size characters.
C29_ChunkBound ==
  sp_pc = "done" =>
    /\ \A k \in DOMAIN sp_chunks : Len(sp_chunks[k]) <= sp_size
    /\ (OneSentence(sp_text) /\ Len(sp_text) > sp_size) =>
         sp_chunks = _force_split(sp_text, sp_size)

\* The bound is broken by the overlap alone, sentences of any length aside.
NoLongSentence(s, size) ==
  \A a \in DOMAIN s, b \in DOMAIN s :
    (b - a + 1 > size) => \E k \in a..b : s[k].c \in {Stop, Newline, Space}

C29_BoundButForLongSentences ==
  (sp_pc = "done" /\ NoLongSentence(sp_text, sp_size)) =>
    \A k \in DOMAIN sp_chunks : Len(sp_chunks[k]) <= sp_size

\* With no overlap and no sentence longer than chunk_size the bound holds.
SentenceFits(s, size) ==
  \A a \in DOMAIN s, b \in DOMAIN s :
    (b - a + 1 > size) =>
      \E k \in a..(b - 1) : s[k].c = Stop \/ (s[k].c = Newline /\ s[k + 1].c = Newline)

C29_BoundWithoutOverlap ==
  (sp_pc = "done" /\ sp_overlap = 0 /\ SentenceFits(sp_text, sp_size)) =>
    \A k \in DOMAIN sp_chunks : Len(sp_chunks[k]) <= sp_size

\* ------------------------------------------------------------------- C30
\* The chunks that hold the character at position p of the text.
ChunksWith(p) ==
  {k \in DOMAIN sp_chunks : \E j \in DOMAIN sp_chunks[k] : sp_chunks[k][j] = sp_text[p]}

Covered(p) == ChunksWith(p) # {}

FirstChunkWith(p) == CHOOSE k \in ChunksWith(p) : \A j \in ChunksWith(p) : k <= j

\* Within a chunk, and from one chunk to the next, the characters taken
\* from the text come in the order they have there.
InOrder ==
  /\ \A k \in DOMAIN sp_chunks : \A a \in DOMAIN sp_chunks[k], b \in DOMAIN sp_chunks[k] :
       (a < b /\ sp_chunks[k][a].p > 0 /\ sp_chunks[k][b].p > 0) =>
          sp_chunks[k][a].p < sp_chunks[k][b].p
  /\ \A p \in DOMAIN sp_text, q \in DOMAIN sp_text :
       (p < q /\ Covered(p) /\ Covered(q)) => FirstChunkWith(p) <= FirstChunkWith(q)

\* C30: every character of the text is in at least one chunk, and the
\* chunks keep the characters in the order of the text.
C30_ChunkCover ==
  sp_pc = "done" => ((\A p \in DOMAIN sp_text : Covered(p)) /\ InOrder)

\* Whitespace aside, a character is still lost: a full stop.
C30_VisibleCovered ==
  sp_pc = "done" =>
    \A p \in DOMAIN sp_text : sp_text[p].c \notin Whitespace => Covered(p)

\* Letters are never lost, and what the chunks hold is in order.
C30_LettersCoveredInOrder ==
  sp_pc = "done" =>
    ((\A p \in DOMAIN sp_text : sp_text[p].c = Letter => Covered(p)) /\ InOrder)

\* ------------------------------------------------------------------- C31
\* C31: merging the chunks of a text as split returned them gives the text
\* back up to whitespace: no character that is not whitespace is dropped
\* or repeated.
C31_Reassembly ==
  sp_pc = "merged" => Glyphs(Visible(sp_merged)) = Glyphs(Visible(sp_text))

\* The chunks one after the other.
RECURSIVE Concat(_)
Concat(parts) ==
  IF parts = <<>> THEN <<>> ELSE Head(parts) \o Concat(Tail(parts))

\* Merging loses characters of its own: chunks cut with no overlap, so
\* that there is nothing to remove, do not all come back.
C31_NothingToRemove ==
  (sp_pc = "merged" /\ sp_overlap = 0) =>
     Glyphs(Visible(sp_merged)) = Glyphs(Visible(Concat(sp_chunks)))

\* No character of the text comes back twice.
C31_NoRepeat ==
  sp_pc = "merged" =>
     \A a \in DOMAIN sp_merged, b \in DOMAIN sp_merged :
        (a # b /\ sp_merged[a].p > 0) => sp_merged[a] # sp_merged[b]

C32_WitnessChanged ==
  /\ df_pc = "done"
  /\ Glyphs(df_original) = <<Letter, Space, Letter>>
  /\ Glyphs(df_corrected) = <<Letter, Letter, Letter>>
  /\ df_result

\* ------------------------------------------------------------------- C33
\* No step but a deletion changes a results row: a row that exists before
\* a step exists after it with every column as it was, unless the step is
\* delete_result taking that row away.
C33_RowsKept ==
  \A rid \in DOMAIN store_results :
    \/ /\ rid \in DOMAIN store_results'
       /\ store_results'[rid] = store_results[rid]
    \/ /\ rid \notin DOMAIN store_results'
       /\ rid \in deleted' \ deleted

\* No result id is written twice, a deleted one included.
C33_WrittenOnce ==
  /\ \A rid \in DOMAIN writes : writes[rid] = 1
  /\ DOMAIN writes = DOMAIN store_results \cup deleted

\* C33: a result, once written, changes by deletion only: no operation other
\* than delete_result changes any column of an existing results row, and no
\* result id is ever written twice.
C33_ResultImmutable ==
  /\ [][C33_RowsKept]_vars
  /\ []C33_WrittenOnce

\* A manual result written, deleted, and the task completed afterwards
\* under another id, each id written once.
C33_Witness ==
  /\ w_pc = "done"
  /\ tasks[w_id].status = "completed"
  /\ deleted = {Id(1)}
  /\ DOMAIN store_results = {Id(2)}
  /\ writes = (Id(1) :> 1) @@ (Id(2) :> 1)

\* ------------------------------------------------------------------- C34
\* The units of the engine runs a task has behind it: summed over its
\* chapters, resp. those of its one run.
UnitsRun(tid) ==
  IF tasks[tid].use_chapters THEN w_chunks
  ELSE IF w_result = [none |-> TRUE] THEN 0 ELSE w_result.total_chunks

\* The chapter run returned last made a progress callback.
LastChapterReported ==
  /\ w_pc \in {"chapter", "complete"}
  /\ corrected_chapters # <<>>
  /\ Reports(engine_log[Len(engine_log)]) # <<>>

\* C34, as stated: the progress of a task never has current above total;
\* in a chapter-mode task the total the callback forwards counts the units
\* of the chapters done and of the chapter being processed; a completed
\* task has current = total = the units of all its chapters.
C34_Progress ==
  \A tid \in DOMAIN tasks :
    LET t == tasks[tid]
    IN /\ t.progress.current <= t.progress.total
       /\ (t.use_chapters /\ LastChapterReported) => t.progress.total = w_chunks
       /\ t.status = "completed" =>
            /\ t.progress.current = t.progress.total
            /\ t.progress.total = UnitsRun(tid)

\* It holds of the tasks without chapters.
C34_PlainProgress ==
  \A tid \in DOMAIN tasks :
    LET t == tasks[tid]
    IN ~t.use_chapters =>
         /\ t.progress.current <= t.progress.total
         /\ t.status = "completed" =>
              /\ t.progress.current = t.progress.total
              /\ t.progress.total = UnitsRun(tid)

\* What the code does with chapters: the total forwarded is that of the
\* chapters done before, so current runs ahead of it by the units reported
\* for the chapter being processed.
C34_TotalLagsBehind ==
  \A tid \in DOMAIN tasks :
    LET t == tasks[tid]
    IN (t.use_chapters /\ LastChapterReported) =>
         /\ t.progress.total =
              w_chunks - corrected_chapters[Len(corrected_chapters)].total_chunks
         /\ t.progress.current > t.progress.total

\* ------------------------------------------------------------------- C35
Over(tid) == tid \in DOMAIN tasks /\ tasks[tid].status \in {"completed", "failed"}

\* C35: every task an upload creates reaches status completed or failed
\* and stays there, whichever engine runs fail and whichever store write
\* raises: no task stays pending or processing for ever.
C35_TaskEnds ==
  (w_pc # "none") ~> [](Over(w_id))

\* A task whose result row could not be written: it ends failed, having
\* been completed on the way.
C35_Witness ==
  /\ w_pc = "done"
  /\ w_error = <<"upsert_result failed">>
  /\ tasks[w_id].status = "failed"
  /\ status_log = <<"pending", "processing", "completed", "failed">>

\* ------------------------------------------------------------------- C36
\* C36, as stated: once POST /api/prompt has stored a prompt, every adapter
\* call started afterwards is made with the prompt stored last, also by a
\* service that was cached before.
C36_PromptInEffect ==
  (p_call.made /\ p_call.posts > 0) => p_call.prompt = p_call.stored

\* What holds: a service constructed after the update for a provider other
\* than Ollama calls with the prompt stored last, until the next update.
C36_NewCloudService ==
  [][(AdapterCall /\ ~p_call'.cached /\ p_call'.provider # "ollama")
       => p_call'.prompt = p_call'.stored]_vars

\* A service cached before the update calls with the prompt it was
\* constructed with.
C36_Stale ==
  /\ p_call.made
  /\ p_call.cached
  /\ p_call.provider = "openai"
  /\ p_call.posts = 1
  /\ p_call.prompt = Prompt("startup", 0)
  /\ p_call.stored = Prompt("posted", 1)

\* ------------------------------------------------------------------- C37
\* The call made last ended with an upsert_task that was written.
Snapshotted ==
  /\ tm_op.op # "none"
  /\ tm_op.snapshot_ok
  /\ tm_op.op = "update_chapter_status" => tasks[w_id].use_chapters

\* C37, as stated: after an upsert_task of the task that was written,
\* store.get_task and list_tasks give the task's in-memory status, and
\* every task of the merged listing has one of the four statuses.
C37_StatusRoundTrip ==
  /\ Snapshotted =>
       /\ store_get_task(w_id).status = tasks[w_id].status
       /\ list_tasks[w_id].status = tasks[w_id].status
  /\ \A listed \in BOOLEAN :
       \A tid \in DOMAIN get_all_tasks(listed) :
         get_all_tasks(listed)[tid].status \in TaskStatus

\* What the store gives back is str() of the member: its name.
C37_StoredName ==
  Snapshotted =>
    /\ store_get_task(w_id).status = str_status(tasks[w_id].status)
    /\ store_get_task(w_id).status \notin TaskStatus

\* The other columns of the snapshot come back as they are in memory.
C37_OtherColumns ==
  Snapshotted =>
    [store_get_task(w_id) EXCEPT !.status = tasks[w_id].status] = tasks[w_id]

\* ------------------------------------------------------------------- C39
\* C39, as stated: every task of the listing of GET /api/tasks is found by
\* GET /api/tasks/{id}, with the same status.
C39_ListingAgrees ==
  \A listed \in BOOLEAN :
    \A tid \in DOMAIN get_all_tasks(listed) :
      /\ get_task(tid) # None
      /\ get_task(tid).status = get_all_tasks(listed)[tid].status

\* It holds as long as every persisted task is in memory: no cleanup and
\* no restart since the task was created.
C39_AgreesInMemory ==
  DOMAIN store_tasks \subseteq DOMAIN tasks => C39_ListingAgrees

\* After a restart the listing shows the task of the earlier process, which
\* the lookup by id does not find.
C39_ListedNotFound ==
  /\ tm_op.op = "restart"
  /\ w_id \in DOMAIN get_all_tasks(TRUE)
  /\ get_task(w_id) = None

\* ------------------------------------------------------------------- C38
\* The run of a task alone: the locals and the task entry after the
\* adapter outcomes outs, starting from a new call and a new task.
RECURSIVE Alone(_, _)
Alone(outs, total) ==
  IF outs = <<>> THEN [locals |-> NewLocals, task |-> NewRunTask]
  ELSE LET before == Alone(SubSeq(outs, 1, Len(outs) - 1), total)
           loc1 == LoopStep(before.locals, total, outs[Len(outs)])
       IN [locals |-> loc1,
           task |-> TaskStep(before.task, loc1, total, outs[Len(outs)])]

\* C38: concurrent tasks are isolated.  Whatever the interleaving of two
\* tasks that run through the same cached service, the consecutive-failure
\* counter, the failure list, the progress and the status of each task are
\* those of the task run alone with the adapter outcomes of its own units.
C38_Isolated ==
  \A t \in Tasks :
    /\ run_locals[FrameOf(t)] = Alone(run_outcomes[t], run_total[t]).locals
    /\ run_tasks[t] = Alone(run_outcomes[t], run_total[t]).task

\* Two failures of task a with two of task b in between: a goes on to its
\* third unit and completes, b has failed on its own account.
C38_Witness ==
  /\ run_outcomes["a"] = <<"Exception", "Exception", "ok">>
  /\ run_outcomes["b"] = <<"Exception", "Exception">>
  /\ run_total["b"] = 2
  /\ run_tasks["a"].status = "completed"
  /\ run_tasks["b"].status = "failed"
  /\ run_locals[FrameOf("a")].failed_chunks = <<1, 2>>

\* ------------------------------------------------------------------- C40
\* correct_text_with_retry ended by raising the error of the call of
\* correct_text it made last.
RaisedLastError ==
  /\ correct_calls > 0
  /\ last_error = Raised(attempt, fail_kinds[correct_calls])
  /\ r_out = last_error.kind

\* C40, as stated: for every max_retries >= 0, 0 included, whenever
\* correct_text_with_retry does not return, the error it raises is the one
\* raised by the last attempted call of correct_text.
C40_RaisesLastError ==
  r_pc = "raised" => RaisedLastError

\* It holds for every max_retries above 0.
C40_PositiveRetries ==
  (r_pc = "raised" /\ max_retries > 0) => RaisedLastError

\* With max_retries = 0 no call is attempted and the error raised is the
\* TypeError of `raise None`.
C40_NoAttempt ==
  (r_pc = "raised" /\ max_retries = 0) =>
    /\ correct_calls = 0
    /\ last_error = NoAttempt
    /\ r_out = "TypeError"

====
